---- MODULE Spec2Model ----
(***************************************************************************)
(* A model of the Scopes specializer (src/src/prover.cpp).                 *)
(*                                                                         *)
(* The specializer is a recursive descent over the untyped value graph.    *)
(* Every C++ function of prover.cpp is an operator of the same name that   *)
(* takes the mutable program state `st` (function cache, Function objects, *)
(* job queue, loops) and returns a result record [st, err, v]: the state   *)
(* left behind, the error ("" when the SCOPES_RESULT is ok) and the value. *)
(* One action of the specification is one top level call of                *)
(* specialize(frame, template, types), nested calls included.              *)
(***************************************************************************)
EXTENDS Integers, Sequences, FiniteSets, TLC

VARIABLES
    prog,       \* the root template of the program being specialized
    functions,  \* the function cache (prover.cpp:100): a set of Function ids
    fns,        \* every Function object created so far, indexed by id
    nsym,       \* the number of SymbolValue objects created so far
    jobs,       \* the global job deque (prover.cpp:195)
    aborted,    \* an assert() of the specializer has failed: the process is gone
    ndebug,     \* the build defines NDEBUG: assert() expands to nothing
    last,       \* the last top level call: its key, outcome and event log
    history,    \* every (key, outcome) of a specialize(frame, template, types) call so far
    mrg,        \* inputs and outputs of the merge_return_type applications
    bnd,        \* inputs and outputs of the parameter binder applications
    app,        \* inputs and outputs of the node and argument list applications
    ast         \* the StreamAST object, the graph it prints and what it has printed

vars == <<prog, functions, fns, nsym, jobs, aborted, ndebug, last, history, mrg, bnd,
          app, ast>>

(***************************************************************************)
(* Bounds of the model.                                                    *)
(***************************************************************************)
MaxFunctions == 4   \* Function objects created in one run
MaxArgs == 1        \* argument types of a top level call
MaxParams == 3      \* parameters of the templates the binders are applied to
MaxBindArgs == 2    \* arguments the binders are applied to
MaxListLen == 2     \* values of an ArgumentList, and the indices extracted
MaxStreams == 2     \* stream() calls on one StreamAST object
WalkLimit == 12     \* the depth at which a walk is given up as not ending
MaxArgNodes == 2    \* values specialize_arguments is applied to

(***************************************************************************)
(* Types.  A type is a record [k, elts]; types are interned in the source  *)
(* and compared by pointer, here they are compared by structure.           *)
(***************************************************************************)
Ty(k) == [k |-> k, elts |-> <<>>]

TNull == Ty("null")
TYPE_NoReturn == Ty("NoReturn")
TYPE_Nothing == Ty("Nothing")
TYPE_I32 == Ty("i32")
TYPE_Bool == Ty("bool")
TYPE_String == Ty("String")
TYPE_Closure == Ty("Closure")
TYPE_Builtin == Ty("Builtin")
TYPE_Unknown == Ty("Unknown")

is_returning(T) == T # TYPE_NoReturn

arguments_type(types) ==
    IF Len(types) = 1 THEN types[1] ELSE [k |-> "Arguments", elts |-> types]

empty_arguments_type == arguments_type(<<>>)

is_arguments_type(T) == T.k = "Arguments"

raising_function_type(except_type, return_type, params) ==
    [k |-> "Function", elts |-> <<except_type, return_type>> \o params]

native_ro_pointer_type(T) == [k |-> "Pointer", elts |-> <<T>>]

\* the flags of a pointer type; a pointer without flags can be read and
\* written
PTF_NonWritable == "NonWritable"
PTF_NonReadable == "NonReadable"

\* pointer_type(T, flags, storage_class), for the unnamed storage class;
\* pointer_type(T, {PTF_NonWritable}) is native_ro_pointer_type(T)
pointer_type(T, flags) ==
    [k |-> IF flags = {PTF_NonWritable} THEN "Pointer"
           ELSE IF flags = {} THEN "PointerRW"
           ELSE IF flags = {PTF_NonReadable} THEN "PointerWO"
           ELSE "PointerNA",
     elts |-> <<T>>]

is_pointer(T) == T.k \in {"Pointer", "PointerRW", "PointerWO", "PointerNA"}

pointer_flags(T) ==
    IF T.k = "Pointer" THEN {PTF_NonWritable}
    ELSE IF T.k = "PointerRW" THEN {}
    ELSE IF T.k = "PointerWO" THEN {PTF_NonReadable}
    ELSE {PTF_NonWritable, PTF_NonReadable}

is_readable(T) == PTF_NonReadable \notin pointer_flags(T)

\* a typename with this storage type; TNull for an opaque typename
typename_type(storage) == [k |-> "Typename", elts |-> <<storage>>]

\* storage_type(T): the result is [err, T]
storage_type(T) ==
    IF T.k # "Typename" THEN [err |-> "", T |-> T]
    ELSE IF T.elts[1] = TNull THEN [err |-> "opaque_type", T |-> TNull]
    ELSE [err |-> "", T |-> T.elts[1]]

is_function_pointer(T) ==
    /\ is_pointer(T)
    /\ T.elts[1].k = "Function"

extract_function_type(T) ==
    LET ft == T.elts[1]
    IN  [except_type |-> ft.elts[1],
         return_type |-> ft.elts[2],
         argument_types |-> SubSeq(ft.elts, 3, Len(ft.elts))]

(***************************************************************************)
(* Results of a SCOPES_RESULT function.                                    *)
(***************************************************************************)
NoValue == [kind |-> "none", type |-> TNull]

Ok(st, v) == [st |-> st, err |-> "", v |-> v]

Err(st, e) == [st |-> st, err |-> e, v |-> NoValue]

\* The(S) is the element of the singleton S.  The({E : r \in {e}}) is E with
\* r standing for the value of e: the result of a call is computed once,
\* as in the source, however often E reads it.
The(S) == CHOOSE y \in S : TRUE

(***************************************************************************)
(* merge_return_type, prover.cpp:273-285.  The result is [err, T].         *)
(***************************************************************************)
MergeOk(T) == [err |-> "", T |-> T]

MergeErr == [err |-> "cannot_merge_expression_types", T |-> TNull]

\* merge_return_type with the wrong operand returned when T1 is NoReturn
merge_return_type_keeps_noreturn(T1, T2) ==
    IF T1 = TNull THEN MergeOk(T2)
    ELSE IF T1 = T2 THEN MergeOk(T1)
    ELSE IF ~is_returning(T1) THEN MergeOk(T1)
    ELSE IF ~is_returning(T2) THEN MergeOk(T1)
    ELSE MergeErr

\* merge_return_type without the test for a non-returning second operand
merge_return_type_no_T2_test(T1, T2) ==
    IF T1 = TNull THEN MergeOk(T2)
    ELSE IF T1 = T2 THEN MergeOk(T1)
    ELSE IF ~is_returning(T1) THEN MergeOk(T2)
    ELSE MergeErr

merge_return_type(T1, T2) ==
    IF T1 = TNull THEN MergeOk(T2)
    ELSE IF T1 = T2 THEN MergeOk(T1)
    ELSE IF ~is_returning(T1) THEN MergeOk(T2)
    ELSE IF ~is_returning(T2) THEN MergeOk(T1)
    ELSE MergeErr

(***************************************************************************)
(* Values.  Untyped input nodes and specialized values are records with a  *)
(* kind, a type (TNull while untyped) and an id: the identity under which  *)
(* a frame binds the node (0 for nodes that are never bound).              *)
(***************************************************************************)
is_typed(node) == node.type # TNull

ConstInt_from(T, n) == [id |-> 0, kind |-> "ConstInt", type |-> T, ival |-> n]

ConstPointer_string_from(n) ==
    [id |-> 0, kind |-> "ConstPointer", type |-> TYPE_String, ival |-> n]

ConstInt_builtin_from(b) ==
    [id |-> 0, kind |-> "ConstInt", type |-> TYPE_Builtin, builtin |-> b]

ConstTuple_none_from == [id |-> 0, kind |-> "ConstTuple", type |-> TYPE_Nothing]

ConstPointer_closure_from(func, frame) ==
    [id |-> 0, kind |-> "ConstPointer", type |-> TYPE_Closure,
     func |-> func, frame |-> frame]

SymbolValue_from(uid, name, T) ==
    [id |-> 0, kind |-> "Symbol", type |-> T, name |-> name, uid |-> uid,
     variadic |-> FALSE]

Const_classof(node) ==
    node.kind \in {"ConstInt", "ConstReal", "ConstPointer", "ConstTuple",
                   "ConstArray", "ConstVector", "Extern"}

is_symbolic(node) ==
    \/ Const_classof(node)
    \/ node.kind \in {"Template", "Function", "Symbol"}

\* is_useless without the case of a Let that binds nothing
is_useless_keeps_empty_let(node) ==
    \/ Const_classof(node)
    \/ node.kind \in {"Template", "Function", "Symbol"}

is_useless(node) ==
    \/ Const_classof(node)
    \/ node.kind \in {"Template", "Function", "Symbol"}
    \/ /\ node.kind = "Let"
       /\ Len(node.params) = 0

Block_canonicalize(block) == block

(***************************************************************************)
(* ASTContext, prover.cpp:143-180.                                         *)
(***************************************************************************)
EvalTarget_Void == "Void"
EvalTarget_Symbol == "Symbol"
EvalTarget_Return == "Return"

ASTContext(frame, target, loop) == [frame |-> frame, target |-> target, loop |-> loop]

is_target_void(ctx) == ctx.target = EvalTarget_Void

transform_return_type(ctx, T) ==
    IF is_returning(T) /\ is_target_void(ctx) THEN empty_arguments_type ELSE T

with_target(ctx, target) == ASTContext(ctx.frame, target, ctx.loop)

with_return_target(ctx) == with_target(ctx, EvalTarget_Return)

with_void_target(ctx) == with_target(ctx, EvalTarget_Void)

with_symbol_target(ctx) == with_target(ctx, EvalTarget_Symbol)

for_loop(ctx, loop) == ASTContext(ctx.frame, EvalTarget_Symbol, loop)

(***************************************************************************)
(* merge_value_type, prover.cpp:258-271.                                   *)
(***************************************************************************)
\* merge_value_type joining T2 as it is, whatever the evaluation target
merge_value_type_untransformed(ctx, T1, T2in) ==
    IF T1 = TNull THEN MergeOk(T2in)
    ELSE IF T1 = T2in THEN MergeOk(T1)
    ELSE IF ~is_returning(T1) THEN MergeOk(T2in)
    ELSE IF ~is_returning(T2in) THEN MergeOk(T1)
    ELSE MergeErr

merge_value_type(ctx, T1, T2in) ==
    LET T2 == transform_return_type(ctx, T2in)
    IN  IF T1 = TNull THEN MergeOk(T2)
        ELSE IF T1 = T2 THEN MergeOk(T1)
        ELSE IF ~is_returning(T1) THEN MergeOk(T2)
        ELSE IF ~is_returning(T2) THEN MergeOk(T1)
        ELSE MergeErr

(***************************************************************************)
(* Function objects (frames).  fns[f] is the Function with id f; id 0 is   *)
(* the null pointer.                                                       *)
(***************************************************************************)
\* the null Template pointer
NullTemplate == "null"

Function_from(value) ==
    [original |-> NullTemplate, frame |-> 0, instance_args |-> <<>>,
     return_type |-> TYPE_NoReturn, except_type |-> TYPE_NoReturn,
     complete |-> FALSE, params |-> <<>>, map |-> <<>>,
     value |-> value, type |-> TNull]

Function_bind(st, f, key, val) ==
    [st EXCEPT !.fns[f].map = Append(@, [key |-> key, val |-> val])]

Function_append_param(st, f, sym) ==
    [st EXCEPT !.fns[f].params = Append(@, sym)]

MaxOf(S) == CHOOSE x \in S : \A y \in S : y <= x

RECURSIVE Function_resolve(_, _, _)
Function_resolve(st, f, key) ==
    IF f = 0 \/ key = 0 THEN NoValue
    ELSE LET map == st.fns[f].map
             hits == {i \in DOMAIN map : map[i].key = key}
         IN  IF hits # {} THEN map[MaxOf(hits)].val
             ELSE Function_resolve(st, st.fns[f].frame, key)

RECURSIVE Function_find_frame(_, _, _)
Function_find_frame(st, f, scope) ==
    IF f = 0 THEN 0
    ELSE IF st.fns[f].original = scope THEN f
    ELSE Function_find_frame(st, st.fns[f].frame, scope)

\* KeyEqual asking for some equal argument type instead of all of them: two
\* keys without argument types are never equal
KeyEqual_some_argument(lhs, rhs) ==
    IF lhs.frame # rhs.frame THEN FALSE
    ELSE IF lhs.original # rhs.original THEN FALSE
    ELSE IF Len(lhs.instance_args) # Len(rhs.instance_args) THEN FALSE
    ELSE \E i \in 1..Len(lhs.instance_args) :
            lhs.instance_args[i] = rhs.instance_args[i]

\* FunctionSet::KeyEqual, prover.cpp:85-97; lhs and rhs carry frame, original
\* and instance_args (and self, the address of the object)
KeyEqual(lhs, rhs) ==
    IF lhs.frame # rhs.frame THEN FALSE
    ELSE IF lhs.original # rhs.original THEN FALSE
    ELSE IF Len(lhs.instance_args) # Len(rhs.instance_args) THEN FALSE
    ELSE \A i \in 1..Len(lhs.instance_args) :
            lhs.instance_args[i] = rhs.instance_args[i]

FunctionKey(st, f) ==
    [self |-> f, frame |-> st.fns[f].frame, original |-> st.fns[f].original,
     instance_args |-> st.fns[f].instance_args]

\* functions.find that passes over the complete Functions of the cache
functions_find_incomplete_only(st, key) ==
    LET hits == {f \in st.functions : /\ KeyEqual(FunctionKey(st, f), key)
                                      /\ ~st.fns[f].complete}
    IN  IF hits = {} THEN 0 ELSE CHOOSE f \in hits : TRUE

\* functions.find(&key): the id of the cached Function, 0 for functions.end()
functions_find(st, key) ==
    LET hits == {f \in st.functions : KeyEqual(FunctionKey(st, f), key)}
    IN  IF hits = {} THEN 0 ELSE CHOOSE f \in hits : TRUE

\* functions.insert(fn): an unordered_set keeps the element already there
functions_insert(st, f) ==
    IF functions_find(st, FunctionKey(st, f)) # 0 THEN st
    ELSE [st EXCEPT !.functions = @ \cup {f}]

get_function_type(st, f) ==
    LET fn == st.fns[f]
        params == [i \in 1..Len(fn.params) |-> fn.params[i].type]
    IN  native_ro_pointer_type(
            raising_function_type(fn.except_type, fn.return_type, params))

(***************************************************************************)
(* Argument lists, prover.cpp:324-396.                                     *)
(***************************************************************************)
type_at_index_or_nothing(T, index) ==
    IF index + 1 \in 1..Len(T.elts) THEN T.elts[index + 1] ELSE TYPE_Nothing

extract_argument(value, index) ==
    LET T == value.type
    IN  IF ~is_returning(T) THEN value
        ELSE IF is_arguments_type(T)
        THEN LET Ti == type_at_index_or_nothing(T, index)
             IN  IF Ti = TYPE_Nothing THEN ConstTuple_none_from
                 ELSE IF value.kind = "ArgumentList" THEN value.values[index + 1]
                 ELSE [id |-> 0, kind |-> "ExtractArgument", type |-> Ti,
                       value |-> value, index |-> index]
        ELSE IF index = 0 THEN value
        ELSE ConstTuple_none_from

arguments_type_from_arguments(values) ==
    arguments_type([i \in 1..Len(values) |-> values[i].type])

ArgumentList_from(values) ==
    [id |-> 0, kind |-> "ArgumentList", type |-> TNull, values |-> values]

\* build_argument_list making an ArgumentList of a single value too
build_argument_list_always_list(values) ==
    [ArgumentList_from(values) EXCEPT
       !.type = arguments_type_from_arguments(values)]

build_argument_list(values) ==
    IF Len(values) = 1 THEN values[1]
    ELSE [ArgumentList_from(values) EXCEPT
            !.type = arguments_type_from_arguments(values)]

(***************************************************************************)
(* The state threaded through the specializer.  log and visited are        *)
(* history: the events of the running top level call and the (frame, node) *)
(* pairs that specialize(ctx, node) was entered with.                      *)
(***************************************************************************)
Log(st, ev) == [st EXCEPT !.log = Append(@, ev)]

Visit(st, ctx, node) ==
    IF node.id = 0 THEN st
    ELSE [st EXCEPT !.visited = @ \cup {<<ctx.frame, node.id>>}]

\* assert(false): the process aborts
Abort(st) == Err([st EXCEPT !.aborted = TRUE], "abort")

RECURSIVE specialize(_, _, _)
RECURSIVE specialize_node(_, _, _)
RECURSIVE specialize_Block(_, _, _)
RECURSIVE specialize_Block_body(_, _, _, _, _, _)
RECURSIVE specialize_arguments(_, _, _)
RECURSIVE specialize_arguments_at(_, _, _, _, _, _)
RECURSIVE specialize_ArgumentList(_, _, _)
RECURSIVE specialize_ExtractArgument(_, _, _)
RECURSIVE specialize_bind_arguments(_, _, _, _, _)
RECURSIVE specialize_Let(_, _, _)
RECURSIVE specialize_Loop(_, _, _)
RECURSIVE specialize_Break(_, _, _)
RECURSIVE specialize_Repeat(_, _, _)
RECURSIVE specialize_Return(_, _, _)
RECURSIVE specialize_Raise(_, _, _)
RECURSIVE specialize_call_interior(_, _, _)
RECURSIVE specialize_Call(_, _, _)
RECURSIVE specialize_If(_, _, _)
RECURSIVE specialize_If_clauses(_, _, _, _, _, _)
RECURSIVE specialize_jobs(_, _, _)
RECURSIVE process_jobs(_, _)
RECURSIVE specialize_coroutine(_, _)
RECURSIVE wait_for_return_type(_, _)
RECURSIVE specialize_inline(_, _, _, _, _)
RECURSIVE specialize_function(_, _, _, _)

(***************************************************************************)
(* make_return, prover.cpp:544-557.                                        *)
(***************************************************************************)
RECURSIVE make_return_frame(_, _)
make_return_frame(st, frame) ==
    IF /\ st.fns[frame].original # NullTemplate
       /\ st.templates[st.fns[frame].original].inline
    THEN make_return_frame(st, st.fns[frame].frame)
    ELSE frame

Return_from(value) ==
    [id |-> 0, kind |-> "Return", type |-> TYPE_NoReturn, value |-> value]

make_return(st, ctx, value) ==
    LET frame == make_return_frame(st, ctx.frame)
        m == merge_return_type(st.fns[frame].return_type, value.type)
    IN  IF m.err # "" THEN Err(st, m.err)
        ELSE Ok(Log([st EXCEPT !.fns[frame].return_type = m.T],
                    [ev |-> "make_return", frame |-> frame, ctxframe |-> ctx.frame,
                     T |-> value.type]),
                Return_from(value))

(***************************************************************************)
(* specialize_Block, prover.cpp:304-322.  tys collects, for the event log, *)
(* the types of the body statements specialized so far.                    *)
(***************************************************************************)
Block_from(body, value, T) ==
    [id |-> 0, kind |-> "Block", type |-> T, body |-> body, value |-> value]

BlockEvent(ctx, block, tys, subfail, err, body, tail) ==
    [ev |-> "block", frame |-> ctx.frame, node |-> block.id, stmt_types |-> tys,
     subfail |-> subfail, err |-> err, body |-> body, tail |-> tail]

specialize_Block_body(st, subctx, block, i, newbody, tys) ==
    IF i > Len(block.body) THEN [st |-> st, err |-> "", body |-> newbody, tys |-> tys]
    ELSE The({
             IF r.err # ""
             THEN [st |-> Log(r.st, BlockEvent(subctx, block, tys, TRUE, r.err, newbody,
                                               TNull)),
                   err |-> r.err, body |-> newbody, tys |-> tys]
             ELSE IF ~is_returning(r.v.type)
             THEN [st |-> Log(r.st, BlockEvent(subctx, block, Append(tys, r.v.type),
                                               FALSE, "noreturn_not_last_expression",
                                               newbody, TNull)),
                   err |-> "noreturn_not_last_expression",
                   body |-> newbody, tys |-> tys]
             ELSE specialize_Block_body(r.st, subctx, block, i + 1,
                      IF is_useless(r.v) THEN newbody ELSE Append(newbody, r.v),
                      Append(tys, r.v.type)) :
             r \in {specialize(st, subctx, block.body[i])}})

specialize_Block(st, ctx, block) ==
    The({
        IF b.err # "" THEN Err(b.st, b.err)
        ELSE The({
                 IF r.err # ""
                 THEN Err(Log(r.st, BlockEvent(ctx, block, b.tys, TRUE, r.err, b.body,
                                               TNull)), r.err)
                 ELSE LET rtype == transform_return_type(ctx, r.v.type)
                      IN  Ok(Log(r.st, BlockEvent(ctx, block, b.tys, FALSE, "", b.body,
                                                  r.v.type)),
                             Block_canonicalize(Block_from(b.body, r.v, rtype))) :
                 r \in {specialize(b.st, ctx, block.value)}}) :
        b \in {specialize_Block_body(st, with_void_target(ctx), block, 1, <<>>, <<>>)}})

(***************************************************************************)
(* specialize_arguments, prover.cpp:352-379.  The result is [st, err, vs]; *)
(* the loop collects in ins, for the event log, the values the inputs were *)
(* specialized to, and tells in subfail whether an input failed.           *)
(***************************************************************************)
\* the loop appending element 0 only of a last value of an arguments type
specialize_arguments_at_last_first_only(st, subctx, values, i, outargs, ins) ==
    LET count == Len(values)
    IN  IF i >= count
        THEN [st |-> st, err |-> "", vs |-> outargs, ins |-> ins, subfail |-> FALSE]
        ELSE The({
                 LET T == r.v.type
                 IN  IF r.err # ""
                     THEN [st |-> r.st, err |-> r.err, vs |-> outargs, ins |-> ins,
                           subfail |-> TRUE]
                     ELSE IF ~is_returning(T)
                     THEN [st |-> r.st, err |-> "noreturn_not_last_expression",
                           vs |-> outargs, ins |-> Append(ins, r.v), subfail |-> FALSE]
                     ELSE specialize_arguments_at(r.st, subctx, values, i + 1,
                            Append(outargs, IF is_arguments_type(T)
                                            THEN extract_argument(r.v, 0) ELSE r.v),
                            Append(ins, r.v)) :
                 r \in {specialize(st, subctx, values[i + 1])}})

\* the loop accepting a last value that is not returning
specialize_arguments_at_noreturn_last(st, subctx, values, i, outargs, ins) ==
    LET count == Len(values)
    IN  IF i >= count
        THEN [st |-> st, err |-> "", vs |-> outargs, ins |-> ins, subfail |-> FALSE]
        ELSE The({
                 LET T == r.v.type
                 IN  IF r.err # ""
                     THEN [st |-> r.st, err |-> r.err, vs |-> outargs, ins |-> ins,
                           subfail |-> TRUE]
                     ELSE IF ~is_returning(T) /\ (i + 1) < count
                     THEN [st |-> r.st, err |-> "noreturn_not_last_expression",
                           vs |-> outargs, ins |-> Append(ins, r.v), subfail |-> FALSE]
                     ELSE IF is_arguments_type(T) /\ (i + 1) = count
                     THEN [st |-> r.st, err |-> "",
                           vs |-> outargs \o [j \in 1..Len(T.elts) |->
                                                extract_argument(r.v, j - 1)],
                           ins |-> Append(ins, r.v), subfail |-> FALSE]
                     ELSE specialize_arguments_at(r.st, subctx, values, i + 1,
                            Append(outargs, IF is_arguments_type(T)
                                            THEN extract_argument(r.v, 0) ELSE r.v),
                            Append(ins, r.v)) :
                 r \in {specialize(st, subctx, values[i + 1])}})

specialize_arguments_at(st, subctx, values, i, outargs, ins) ==
    LET count == Len(values)
    IN  IF i >= count
        THEN [st |-> st, err |-> "", vs |-> outargs, ins |-> ins, subfail |-> FALSE]
        ELSE The({
                 LET T == r.v.type
                 IN  IF r.err # ""
                     THEN [st |-> r.st, err |-> r.err, vs |-> outargs, ins |-> ins,
                           subfail |-> TRUE]
                     ELSE IF ~is_returning(T)
                     THEN [st |-> r.st, err |-> "noreturn_not_last_expression",
                           vs |-> outargs, ins |-> Append(ins, r.v), subfail |-> FALSE]
                     ELSE IF is_arguments_type(T) /\ (i + 1) = count
                     THEN [st |-> r.st, err |-> "",
                           vs |-> outargs \o [j \in 1..Len(T.elts) |->
                                                extract_argument(r.v, j - 1)],
                           ins |-> Append(ins, r.v), subfail |-> FALSE]
                     ELSE specialize_arguments_at(r.st, subctx, values, i + 1,
                            Append(outargs, IF is_arguments_type(T)
                                            THEN extract_argument(r.v, 0) ELSE r.v),
                            Append(ins, r.v)) :
                 r \in {specialize(st, subctx, values[i + 1])}})

\* what specialize_arguments did: the number of its input values, the values
\* the inputs were specialized to, up to the one that ended the loop, and
\* the output
ArgumentsEvent(values, a) ==
    [ev |-> "arguments", count |-> Len(values), ins |-> a.ins,
     subfail |-> a.subfail, err |-> a.err, out |-> a.vs]

specialize_arguments(st, ctx, values) ==
    The({[st |-> Log(a.st, ArgumentsEvent(values, a)), err |-> a.err, vs |-> a.vs] :
         a \in {specialize_arguments_at(st, with_symbol_target(ctx), values, 0,
                                        <<>>, <<>>)}})

specialize_ArgumentList(st, ctx, nlist) ==
    The({IF a.err # "" THEN Err(a.st, a.err)
         ELSE Ok(a.st, build_argument_list(a.vs)) :
         a \in {specialize_arguments(st, ctx, nlist.values)}})

specialize_ExtractArgument(st, ctx, node) ==
    The({IF r.err # "" THEN r
         ELSE Ok(r.st, extract_argument(r.v, node.index)) :
         r \in {specialize(st, ctx, node.value)}})

(***************************************************************************)
(* specialize_bind_specialized_arguments, prover.cpp:413-451.              *)
(* The result is [st, err, outparams, outargs].                            *)
(***************************************************************************)
BindResult(st, err, outparams, outargs) ==
    [st |-> st, err |-> err, outparams |-> outparams, outargs |-> outargs]

\* the value bound to parameter i, a variadic parameter always given a new
\* argument list
bind_newval_always_list(params, tmpargs, i) ==
    LET oldsym == params[i + 1]
        m == Len(tmpargs)
    IN  IF oldsym.variadic
        THEN LET values == SubSeq(tmpargs, i + 1, m)
             IN  [ArgumentList_from(values) EXCEPT
                   !.type = arguments_type_from_arguments(values)]
        ELSE IF i < m THEN tmpargs[i + 1]
        ELSE ConstTuple_none_from

\* the value bound to parameter i (counted from 0), prover.cpp:420-440
bind_newval(params, tmpargs, i) ==
    LET oldsym == params[i + 1]
        m == Len(tmpargs)
    IN  IF oldsym.variadic
        THEN IF (i + 1) = m THEN tmpargs[i + 1]
             ELSE LET values == SubSeq(tmpargs, i + 1, m)
                  IN  [ArgumentList_from(values) EXCEPT
                        !.type = arguments_type_from_arguments(values)]
        ELSE IF i < m THEN tmpargs[i + 1]
        ELSE ConstTuple_none_from

\* the variadic test of the binder, prover.cpp:421-425
bind_variadic_misplaced(params, i) ==
    /\ params[i + 1].variadic
    /\ (i + 1) < Len(params)

RECURSIVE specialize_bind_specialized_arguments_at(_, _, _, _, _, _, _, _)
specialize_bind_specialized_arguments_at(st, ctx, params, tmpargs, inline_constants, i, outparams, outargs) ==
    IF i >= Len(params) THEN BindResult(st, "", outparams, outargs)
    ELSE IF bind_variadic_misplaced(params, i)
    THEN BindResult(st, "variadic_symbol_not_in_last_place", outparams, outargs)
    ELSE LET oldsym == params[i + 1]
             newval == bind_newval(params, tmpargs, i)
         IN  IF inline_constants /\ is_symbolic(newval)
             THEN specialize_bind_specialized_arguments_at(
                      Function_bind(st, ctx.frame, oldsym.id, newval),
                      ctx, params, tmpargs, inline_constants, i + 1,
                      outparams, outargs)
             ELSE LET newsym == SymbolValue_from(st.nsym + 1, oldsym.name,
                                                 newval.type)
                      st1 == [Function_bind(st, ctx.frame, oldsym.id, newsym)
                                EXCEPT !.nsym = @ + 1]
                  IN  specialize_bind_specialized_arguments_at(
                          st1, ctx, params, tmpargs, inline_constants, i + 1,
                          Append(outparams, newsym), Append(outargs, newval))

specialize_bind_specialized_arguments(st, ctx, params, tmpargs, inline_constants) ==
    specialize_bind_specialized_arguments_at(st, ctx, params, tmpargs,
                                             inline_constants, 0, <<>>, <<>>)

specialize_bind_arguments(st, ctx, params, values, inline_constants) ==
    The({IF a.err # "" THEN BindResult(a.st, a.err, <<>>, <<>>)
         ELSE specialize_bind_specialized_arguments(a.st, ctx, params, a.vs,
                                                    inline_constants) :
         a \in {specialize_arguments(st, ctx, values)}})

(***************************************************************************)
(* Let and Loop, prover.cpp:471-492.                                       *)
(***************************************************************************)
Let_from(params, args) ==
    [id |-> 0, kind |-> "Let", type |-> empty_arguments_type,
     params |-> params, args |-> args]

specialize_Let(st, ctx, let) ==
    The({IF b.err # "" THEN Err(b.st, b.err)
         ELSE Ok(b.st, Let_from(b.outparams, b.outargs)) :
         b \in {specialize_bind_arguments(st, ctx, let.params, let.args, TRUE)}})

\* Loop::from: a new Loop object, its return_type not yet set
Loop_from(st) == [st EXCEPT !.loops = Append(@, TNull)]

specialize_Loop(st, ctx, loop) ==
    LET st0 == Loop_from(st)
        newloop == Len(st0.loops)
    IN  The({
        IF b.err # "" THEN Err(b.st, b.err)
        ELSE The({
                 IF r.err # "" THEN r
                 ELSE LET m == merge_value_type(ctx, r.st.loops[newloop], r.v.type)
                      IN  IF m.err # "" THEN Err(r.st, m.err)
                          ELSE Ok([r.st EXCEPT !.loops[newloop] = m.T],
                                  [id |-> 0, kind |-> "Loop", type |-> m.T,
                                   params |-> b.outparams, args |-> b.outargs,
                                   value |-> r.v, loop |-> newloop]) :
                 r \in {specialize(b.st, for_loop(ctx, newloop), loop.value)}}) :
        b \in {specialize_bind_arguments(st0, ctx, loop.params, loop.args, FALSE)}})

(***************************************************************************)
(* Break, Repeat, Return, Raise, prover.cpp:518-580.                       *)
(***************************************************************************)
\* what specialize_Break did to the return types of the loops: st is the
\* state once the value is specialized, r the result
BreakEvent(st, ctx, value, r) ==
    [ev |-> "break", loop |-> ctx.loop, T |-> value.type, before |-> st.loops,
     after |-> r.st.loops, err |-> r.err, v |-> r.v]

\* specialize_Break specializing the value before it tests for a loop
specialize_Break_value_first(st, ctx, break) ==
    LET subctx == with_symbol_target(ctx)
    IN  The({
        IF r.err # "" THEN r
        ELSE IF ctx.loop = 0 THEN Err(r.st, "illegal_break_outside_loop")
        ELSE LET m == merge_value_type(subctx, r.st.loops[ctx.loop], r.v.type)
                 b == IF m.err # "" THEN Err(r.st, m.err)
                      ELSE Ok([r.st EXCEPT !.loops[ctx.loop] = m.T],
                              [id |-> 0, kind |-> "Break", type |-> TYPE_NoReturn,
                               value |-> r.v])
             IN  [b EXCEPT !.st = Log(@, BreakEvent(r.st, ctx, r.v, b))] :
        r \in {specialize(st, subctx, break.value)}})

specialize_Break(st, ctx, break) ==
    IF ctx.loop = 0 THEN Err(st, "illegal_break_outside_loop")
    ELSE LET subctx == with_symbol_target(ctx)
         IN  The({
             IF r.err # "" THEN r
             ELSE LET m == merge_value_type(subctx, r.st.loops[ctx.loop], r.v.type)
                      b == IF m.err # "" THEN Err(r.st, m.err)
                           ELSE Ok([r.st EXCEPT !.loops[ctx.loop] = m.T],
                                   [id |-> 0, kind |-> "Break", type |-> TYPE_NoReturn,
                                    value |-> r.v])
                  IN  [b EXCEPT !.st = Log(@, BreakEvent(r.st, ctx, r.v, b))] :
             r \in {specialize(st, subctx, break.value)}})

specialize_Repeat(st, ctx, repeat) ==
    IF ctx.loop = 0 THEN Err(st, "illegal_repeat_outside_loop")
    ELSE The({IF a.err # "" THEN Err(a.st, a.err)
              ELSE Ok(a.st, [id |-> 0, kind |-> "Repeat", type |-> TYPE_NoReturn,
                             args |-> a.vs]) :
              a \in {specialize_arguments(st, ctx, repeat.args)}})

\* specialize_Return testing for an inline template after the value is
\* specialized
specialize_Return_value_first(st, ctx, return) ==
    The({IF r.err # "" THEN r
         ELSE IF /\ r.st.fns[ctx.frame].original # NullTemplate
                 /\ r.st.templates[r.st.fns[ctx.frame].original].inline
         THEN Err(r.st, "illegal_return_in_inline")
         ELSE IF ctx.target = EvalTarget_Return THEN r
         ELSE make_return(r.st, ctx, r.v) :
         r \in {specialize(st, with_symbol_target(ctx), return.value)}})

specialize_Return(st, ctx, return) ==
    IF /\ st.fns[ctx.frame].original # NullTemplate
       /\ st.templates[st.fns[ctx.frame].original].inline
    THEN Err(st, "illegal_return_in_inline")
    ELSE The({IF r.err # "" THEN r
              ELSE IF ctx.target = EvalTarget_Return THEN r
              ELSE make_return(r.st, ctx, r.v) :
              r \in {specialize(st, with_symbol_target(ctx), return.value)}})

\* the Raise specialize_Raise has emitted in ctx.frame for a value of type T
RaiseEvent(ctx, T) == [ev |-> "raise", ctxframe |-> ctx.frame, T |-> T]

specialize_Raise(st, ctx, raise) ==
    The({
        IF r.err # "" THEN r
        ELSE LET m == merge_return_type(r.st.fns[ctx.frame].except_type, r.v.type)
             IN  IF m.err # "" THEN Err(r.st, m.err)
                 ELSE Ok(Log([r.st EXCEPT !.fns[ctx.frame].except_type = m.T],
                             RaiseEvent(ctx, r.v.type)),
                         [id |-> 0, kind |-> "Raise", type |-> TYPE_NoReturn,
                          value |-> r.v]) :
        r \in {specialize(st, with_symbol_target(ctx), raise.value)}})

(***************************************************************************)
(* Symbols and templates, prover.cpp:1289-1297 and 1366-1380.              *)
(***************************************************************************)
specialize_SymbolValue(st, ctx, sym) ==
    LET value == Function_resolve(st, ctx.frame, sym.id)
    IN  IF value.kind = "none" THEN Err(st, "unbound_symbol")
        ELSE Ok(st, value)

specialize_Template(st, ctx, template) ==
    IF st.templates[template.tid].scope = NullTemplate THEN Abort(st)
    ELSE LET frame == Function_find_frame(st, ctx.frame,
                                          st.templates[template.tid].scope)
         IN  IF frame = 0 THEN Err(st, "cannot_find_frame")
             ELSE Ok(st, ConstPointer_closure_from(template.tid, frame))

specialize_Function(st, ctx, fn) == Ok(st, fn)

(***************************************************************************)
(* The job queue, prover.cpp:185-254.  st.job[j] is the SpecializeJob with *)
(* id j; st.jobs is the deque of job ids.  coro_transfer into a job runs   *)
(* it until it transfers back, so running a job is a nested call.          *)
(***************************************************************************)
Halted(st) == st.aborted \/ st.overflow

SpecializeJob(ctx, node) ==
    [ctx |-> ctx, node |-> node, err |-> "", v |-> NoValue, done |-> FALSE,
     stack |-> TRUE]

specialize_coroutine(st, j) ==
    The({IF Halted(r.st) THEN r.st
         ELSE [r.st EXCEPT !.job[j].err = r.err, !.job[j].v = r.v,
                           !.job[j].done = TRUE] :
         r \in {specialize(Log(st, [ev |-> "job_start", job |-> j]),
                           st.job[j].ctx, st.job[j].node)}})

\* process_jobs starting the last job of the queue first
process_jobs_lifo(st, processed) ==
    IF st.jobs = <<>> THEN [st |-> st, processed |-> processed]
    ELSE The({IF Halted(st1) THEN [st |-> st1, processed |-> processed]
              ELSE process_jobs(st1, processed + 1) :
              st1 \in {specialize_coroutine(
                          [st EXCEPT !.jobs = SubSeq(@, 1, Len(@) - 1)],
                          st.jobs[Len(st.jobs)])}})

\* the result is [st, processed]
process_jobs(st, processed) ==
    IF st.jobs = <<>> THEN [st |-> st, processed |-> processed]
    ELSE The({IF Halted(st1) THEN [st |-> st1, processed |-> processed]
              ELSE process_jobs(st1, processed + 1) :
              st1 \in {specialize_coroutine([st EXCEPT !.jobs = Tail(@)],
                                            Head(st.jobs))}})

\* the result is [st, ok]
wait_for_return_type(st, f) ==
    The({[st |-> p.st, ok |-> p.st.fns[f].return_type # TNull] :
         p \in {process_jobs(st, 0)}})

\* the index of the first job of base+1..base+count with an error, 0 if none
FirstFailedJob(st, base, count) ==
    LET bad == {i \in 1..count : st.job[base + i].err # ""}
    IN  IF bad = {} THEN 0 ELSE CHOOSE i \in bad : \A k \in bad : i <= k

\* what specialize_jobs found when its call of process_jobs returned: the
\* global queue, and the done flag and the result of each of its jobs
JobsEvent(st, base, count) ==
    [ev |-> "jobs", base |-> base, count |-> count, queue |-> st.jobs,
     done |-> [i \in 1..count |-> st.job[base + i].done],
     errs |-> [i \in 1..count |-> st.job[base + i].err],
     tys |-> [i \in 1..count |-> st.job[base + i].v.type]]

\* what specialize_jobs returned, and the jobs it leaves: whether each still
\* has its coroutine and stack
JobsReturnEvent(st, base, count, err, vs) ==
    [ev |-> "jobs_return", base |-> base, count |-> count,
     done |-> [i \in 1..count |-> st.job[base + i].done],
     errs |-> [i \in 1..count |-> st.job[base + i].err],
     stacks |-> [i \in 1..count |-> st.job[base + i].stack],
     err |-> err, vs |-> vs]

\* specialize_jobs returning the error of a job before the coroutines and
\* the stacks are released
specialize_jobs_error_before_release(st, ctx, nodes) ==
    LET count == Len(nodes)
        base == Len(st.job)
        st1 == [st EXCEPT
                  !.job = @ \o [i \in 1..count |-> SpecializeJob(ctx, nodes[i])],
                  !.jobs = @ \o [i \in 1..count |-> base + i]]
    IN  The({
        LET st2 == IF Halted(p.st) THEN p.st
                   ELSE Log(p.st, JobsEvent(p.st, base, count))
        IN  IF Halted(st2) THEN [st |-> st2, err |-> "abort", vs |-> <<>>]
            ELSE IF \E i \in 1..count : ~st2.job[base + i].done
            THEN [st |-> [st2 EXCEPT !.aborted = TRUE], err |-> "abort", vs |-> <<>>]
            ELSE LET bad == FirstFailedJob(st2, base, count)
                     st3 == [st2 EXCEPT !.job =
                               [j \in 1..Len(st2.job) |->
                                  IF j \in (base + 1)..(base + count) /\ bad = 0
                                  THEN [st2.job[j] EXCEPT !.stack = FALSE]
                                  ELSE st2.job[j]]]
                     err == IF bad # 0 THEN st3.job[base + bad].err ELSE ""
                     vs == IF bad # 0 THEN <<>>
                           ELSE [i \in 1..count |-> st3.job[base + i].v]
                 IN  [st |-> Log(st3, JobsReturnEvent(st3, base, count, err, vs)),
                      err |-> err, vs |-> vs] :
        p \in {process_jobs(st1, 0)}})

\* the result is [st, err, vs]
specialize_jobs(st, ctx, nodes) ==
    LET count == Len(nodes)
        base == Len(st.job)
        st1 == [st EXCEPT
                  !.job = @ \o [i \in 1..count |-> SpecializeJob(ctx, nodes[i])],
                  !.jobs = @ \o [i \in 1..count |-> base + i]]
    IN  The({
        LET st2 == IF Halted(p.st) THEN p.st
                   ELSE Log(p.st, JobsEvent(p.st, base, count))
        IN  IF Halted(st2) THEN [st |-> st2, err |-> "abort", vs |-> <<>>]
            ELSE IF \E i \in 1..count : ~st2.job[base + i].done
            THEN [st |-> [st2 EXCEPT !.aborted = TRUE], err |-> "abort", vs |-> <<>>]
            ELSE LET st3 == [st2 EXCEPT !.job =
                               [j \in 1..Len(st2.job) |->
                                  IF j \in (base + 1)..(base + count)
                                  THEN [st2.job[j] EXCEPT !.stack = FALSE]
                                  ELSE st2.job[j]]]
                     bad == FirstFailedJob(st3, base, count)
                     err == IF bad # 0 THEN st3.job[base + bad].err ELSE ""
                     vs == IF bad # 0 THEN <<>>
                           ELSE [i \in 1..count |-> st3.job[base + i].v]
                 IN  [st |-> Log(st3, JobsReturnEvent(st3, base, count, err, vs)),
                      err |-> err, vs |-> vs] :
        p \in {process_jobs(st1, 0)}})

(***************************************************************************)
(* specialize_If, prover.cpp:1299-1364.                                    *)
(***************************************************************************)
\* The clause loop, prover.cpp:1306-1326.  The result is [st, err, clauses,
\* else_value, conds]: the surviving clauses (specialized condition, body
\* node), the node chosen as else body and, for the event log, what the
\* condition of each clause examined turned out to be.
specialize_If_clauses(st, subctx, if, i, clauses, conds) ==
    IF i > Len(if.clauses)
    THEN [st |-> st, err |-> "", clauses |-> clauses,
          else_value |-> if.else_value, conds |-> conds]
    ELSE LET clause == if.clauses[i]
         IN  The({
             IF r.err # ""
             THEN [st |-> r.st, err |-> r.err, clauses |-> clauses,
                   else_value |-> NoValue, conds |-> conds]
             ELSE IF r.v.type # TYPE_Bool
             THEN [st |-> r.st, err |-> "invalid_condition_type",
                   clauses |-> clauses, else_value |-> NoValue, conds |-> conds]
             ELSE IF r.v.kind = "ConstInt"
             THEN IF r.v.ival # 0
                  THEN [st |-> r.st, err |-> "", clauses |-> clauses,
                        else_value |-> clause.value,
                        conds |-> Append(conds, "true")]
                  ELSE specialize_If_clauses(r.st, subctx, if, i + 1, clauses,
                                             Append(conds, "false"))
             ELSE specialize_If_clauses(r.st, subctx, if, i + 1,
                      Append(clauses, [cond |-> r.v, value |-> clause.value]),
                      Append(conds, "dynamic")) :
             r \in {specialize(st, subctx, clause.cond)}})

\* The join of the branch types, prover.cpp:1339-1354.
RECURSIVE specialize_If_merge(_, _, _, _)
specialize_If_merge(ctx, values, i, rtype) ==
    IF i > Len(values) THEN MergeOk(rtype)
    ELSE LET m == merge_value_type(ctx, rtype, values[i].type)
         IN  IF m.err # "" THEN m
             ELSE specialize_If_merge(ctx, values, i + 1, m.T)

\* what specialize_If did, for the event log: tys are the types the branches
\* were specialized to, none when a branch failed
IfEvent(ctx, if, conds, nodes, vs, err, v) ==
    [ev |-> "if", frame |-> ctx.frame, target |-> ctx.target, node |-> if,
     conds |-> conds,
     branches |-> [i \in 1..Len(nodes) |-> nodes[i].id],
     tys |-> [i \in 1..Len(vs) |-> vs[i].type], err |-> err, v |-> v]

\* specialize_If_result building an If node also when no clause survives
specialize_If_result_always_If(ctx, clauses, values, rtype) ==
    [id |-> 0, kind |-> "If", type |-> transform_return_type(ctx, rtype),
     clauses |-> [i \in 1..Len(clauses) |->
                    [cond |-> clauses[i].cond, value |-> values[i]]],
     else_value |-> values[Len(values)]]

\* the value specialize_If returns once the branches are specialized and
\* joined, prover.cpp:1355-1363
specialize_If_result(ctx, clauses, values, rtype) ==
    IF clauses = <<>> THEN values[Len(values)]
    ELSE [id |-> 0, kind |-> "If", type |-> transform_return_type(ctx, rtype),
          clauses |-> [i \in 1..Len(clauses) |->
                         [cond |-> clauses[i].cond, value |-> values[i]]],
          else_value |-> values[Len(values)]]

specialize_If(st, ctx, if) ==
    The({
        IF c.err # "" THEN Err(Log(c.st, IfEvent(ctx, if, c.conds, <<>>, <<>>, c.err, NoValue)),
                               c.err)
        ELSE LET nodes == [i \in 1..(Len(c.clauses) + 1) |->
                             IF i = Len(c.clauses) + 1 THEN c.else_value
                             ELSE c.clauses[i].value]
             IN  The({
                 IF j.err # ""
                 THEN Err(Log(j.st, IfEvent(ctx, if, c.conds, nodes, <<>>, j.err, NoValue)),
                          j.err)
                 ELSE LET m == specialize_If_merge(ctx, j.vs, 1, TNull)
                      IN  IF m.err # ""
                          THEN Err(Log(j.st, IfEvent(ctx, if, c.conds, nodes, j.vs,
                                                     m.err, NoValue)), m.err)
                          ELSE LET v == specialize_If_result(ctx, c.clauses, j.vs, m.T)
                               IN  Ok(Log(j.st, IfEvent(ctx, if, c.conds, nodes, j.vs, "",
                                          [v |-> v, branch |-> j.vs[Len(j.vs)]])), v) :
                 j \in {specialize_jobs(c.st, ctx, nodes)}}) :
        c \in {specialize_If_clauses(st, with_symbol_target(ctx), if, 1, <<>>, <<>>)}})

(***************************************************************************)
(* specialize_call_interior, prover.cpp:795-1276.                          *)
(***************************************************************************)
Call_from(callee, values, T) ==
    [id |-> 0, kind |-> "Call", type |-> T, callee |-> callee, args |-> values]

FunctionValue(st, f) ==
    [id |-> 0, kind |-> "Function", type |-> st.fns[f].type, fid |-> f]

verify(Ta, Tb) == IF Ta = Tb THEN "" ELSE "type_mismatch"

verify_integer_vector(T) == IF T \in {TYPE_I32, TYPE_Bool} THEN "" ELSE "type_mismatch"

verify_integer_ops(A, B) ==
    IF verify_integer_vector(A) # "" THEN verify_integer_vector(A) ELSE verify(A, B)

bool_op_return_type(T) == TYPE_Bool

checkargs(mincount, maxcount, argcount) ==
    IF argcount < mincount \/ argcount > maxcount THEN "argument_count_mismatch"
    ELSE ""

IARITH_NUW_NSW_OPS ==
    {"OP_Add", "OP_AddNUW", "OP_AddNSW", "OP_Sub", "OP_SubNUW", "OP_SubNSW",
     "OP_Mul", "OP_MulNUW", "OP_MulNSW"}

ICMP_OPS ==
    {"OP_ICmpEQ", "OP_ICmpNE", "OP_ICmpUGT", "OP_ICmpUGE", "OP_ICmpULT",
     "OP_ICmpULE", "OP_ICmpSGT", "OP_ICmpSGE", "OP_ICmpSLT", "OP_ICmpSLE"}

\* verify_kind<TK_Pointer>(T)
verify_kind_pointer(T) == IF is_pointer(T) THEN "" ELSE "type_kind_mismatch"

\* the message of the error verify_readable raises, without the type it
\* names
NonReadable == "can not load value from address because the target is non-readable"

\* verify_readable accepting every pointer
verify_readable_always(T) == ""

\* verify_readable, prover.cpp:111-121
verify_readable(T) == IF ~is_readable(T) THEN NonReadable ELSE ""

\* case FN_VolatileLoad, FN_Load of the builtin switch, prover.cpp:1086-1093
specialize_call_load(st, callee, values) ==
    IF checkargs(1, 1, Len(values)) # ""
    THEN Err(st, checkargs(1, 1, Len(values)))
    ELSE LET T == storage_type(values[1].type)
         IN  IF T.err # "" THEN Err(st, T.err)
             ELSE IF verify_kind_pointer(T.T) # "" THEN Err(st, verify_kind_pointer(T.T))
             ELSE IF verify_readable(T.T) # "" THEN Err(st, verify_readable(T.T))
             ELSE Ok(st, Call_from(callee, values, arguments_type(<<T.T.elts[1]>>)))

\* the builtin switch folding the sum of two integer constants
specialize_call_builtin_folding_add(st, ctx, callee, values) ==
    IF callee.kind # "ConstInt" THEN Err(st, "constant_expected")
    ELSE LET b == callee.builtin
             argcount == Len(values)
         IN  IF b \in {"FN_Load", "FN_VolatileLoad"}
             THEN specialize_call_load(st, callee, values)
             ELSE IF b \in ICMP_OPS \cup IARITH_NUW_NSW_OPS
             THEN IF checkargs(2, 2, argcount) # ""
                  THEN Err(st, checkargs(2, 2, argcount))
                  ELSE LET A == values[1].type
                           B == values[2].type
                       IN  IF verify_integer_ops(A, B) # ""
                           THEN Err(st, verify_integer_ops(A, B))
                           ELSE IF /\ b = "OP_Add"
                                   /\ values[1].kind = "ConstInt"
                                   /\ values[2].kind = "ConstInt"
                           THEN Ok(st, ConstInt_from(A, values[1].ival + values[2].ival))
                           ELSE Ok(st, Call_from(callee, values,
                                     arguments_type(
                                       <<IF b \in ICMP_OPS THEN bool_op_return_type(A)
                                         ELSE A>>)))
             ELSE Err(st, "cannot_type_builtin")

\* the builtin switch, prover.cpp:839-1232, for the loads, the integer
\* comparisons and the integer arithmetic operators
specialize_call_builtin(st, ctx, callee, values) ==
    IF callee.kind # "ConstInt" THEN Err(st, "constant_expected")
    ELSE LET b == callee.builtin
             argcount == Len(values)
         IN  IF b \in {"FN_Load", "FN_VolatileLoad"}
             THEN specialize_call_load(st, callee, values)
             ELSE IF b \in ICMP_OPS \cup IARITH_NUW_NSW_OPS
             THEN IF checkargs(2, 2, argcount) # ""
                  THEN Err(st, checkargs(2, 2, argcount))
                  ELSE LET A == values[1].type
                           B == values[2].type
                       IN  IF verify_integer_ops(A, B) # ""
                           THEN Err(st, verify_integer_ops(A, B))
                           ELSE Ok(st, Call_from(callee, values,
                                     arguments_type(
                                       <<IF b \in ICMP_OPS THEN bool_op_return_type(A)
                                         ELSE A>>)))
             ELSE Err(st, "cannot_type_builtin")

\* verify_function_argument_signature, prover.cpp:1244-1267, for argument
\* types that are not pointers
RECURSIVE verify_function_argument_signature(_, _, _)
verify_function_argument_signature(values, argument_types, i) ==
    IF i > Len(argument_types) THEN ""
    ELSE IF values[i].type = argument_types[i]
    THEN verify_function_argument_signature(values, argument_types, i + 1)
    ELSE "argument_type_mismatch"

\* the call of a function pointer that accepts surplus arguments: only
\* missing arguments are a count mismatch
specialize_call_function_pointer_surplus_accepted(st, ctx, callee, values, T) ==
    IF ~is_function_pointer(T) THEN Err(st, "invalid_call_type")
    ELSE LET ft == extract_function_type(T)
             numargs == Len(ft.argument_types)
         IN  IF Len(values) < numargs THEN Err(st, "argument_count_mismatch")
             ELSE IF verify_function_argument_signature(values, ft.argument_types, 1) # ""
             THEN Err(st, "argument_type_mismatch")
             ELSE Ok(st, Call_from(callee, values, ft.return_type))

\* the call of a function pointer, prover.cpp:1233-1275
specialize_call_function_pointer(st, ctx, callee, values, T) ==
    IF ~is_function_pointer(T) THEN Err(st, "invalid_call_type")
    ELSE LET ft == extract_function_type(T)
             numargs == Len(ft.argument_types)
         IN  IF Len(values) # numargs THEN Err(st, "argument_count_mismatch")
             ELSE IF verify_function_argument_signature(values, ft.argument_types, 1) # ""
             THEN Err(st, "argument_type_mismatch")
             ELSE LET newcall == Call_from(callee, values, ft.return_type)
                  IN  IF ft.except_type # TYPE_NoReturn
                      THEN LET m == merge_return_type(st.fns[ctx.frame].except_type,
                                                      ft.except_type)
                           IN  IF m.err # "" THEN Err(st, m.err)
                               ELSE Ok([st EXCEPT !.fns[ctx.frame].except_type = m.T],
                                       newcall)
                      ELSE Ok(st, newcall)

\* the type a call of the cached function f is given, prover.cpp:813-825;
\* the result is [st, ok, T, waited], waited telling whether
\* wait_for_return_type was called
specialize_call_closure_type(st, f) ==
    IF st.fns[f].complete
    THEN [st |-> st, ok |-> TRUE, T |-> st.fns[f].type, waited |-> FALSE]
    ELSE IF st.fns[f].return_type # TNull
    THEN [st |-> st, ok |-> TRUE, T |-> get_function_type(st, f), waited |-> FALSE]
    ELSE The({IF w.ok THEN [st |-> w.st, ok |-> TRUE, T |-> get_function_type(w.st, f),
                            waited |-> TRUE]
              ELSE [st |-> w.st, ok |-> FALSE, T |-> TNull, waited |-> TRUE] :
              w \in {wait_for_return_type(st, f)}})

\* what the call of the cached function f was given: the function as the
\* cache returned it (st), the jobs waiting then, whether the jobs were
\* processed for its type (w), and the call made (r)
ClosureCallEvent(st, f, w, r) ==
    [ev |-> "closure", f |-> f,
     complete |-> st.fns[f].complete,
     return_type |-> st.fns[f].return_type,
     waiting |-> Len(st.jobs),
     waited |-> w.waited,
     ok |-> w.ok,
     T |-> w.T,
     err |-> r.err,
     v |-> r.v]

\* the call of a closure that is not inline, prover.cpp:810-826
specialize_call_closure(st, ctx, callee, values) ==
    LET types == [i \in 1..Len(values) |-> values[i].type]
    IN  The({
        IF rf.err # "" THEN rf
        ELSE The({
             The({[r EXCEPT !.st = Log(r.st, ClosureCallEvent(rf.st, rf.v.fid, w, r))] :
                  r \in {IF Halted(w.st) THEN Err(w.st, "abort")
                         ELSE IF ~w.ok THEN Err(w.st, "untyped_recursive_call")
                         ELSE specialize_call_function_pointer(
                                  w.st, ctx, FunctionValue(w.st, rf.v.fid), values,
                                  w.T)}}) :
             w \in {specialize_call_closure_type(rf.st, rf.v.fid)}}) :
        rf \in {specialize_function(st, callee.frame, callee.func, types)}})

specialize_call_interior(st, ctx, call) ==
    The({
        IF rc.err # "" THEN rc
        ELSE The({
             LET callee == rc.v
                 T == callee.type
             IN  IF a.err # "" THEN Err(a.st, a.err)
                 ELSE IF T = TYPE_Closure
                 THEN IF callee.kind # "ConstPointer" THEN Err(a.st, "constant_expected")
                      ELSE IF a.st.templates[callee.func].inline
                      THEN specialize_inline(a.st, ctx, callee.frame, callee.func, a.vs)
                      ELSE specialize_call_closure(a.st, ctx, callee, a.vs)
                 ELSE IF T = TYPE_Builtin
                 THEN specialize_call_builtin(a.st, ctx, callee, a.vs)
                 ELSE specialize_call_function_pointer(a.st, ctx, callee, a.vs, T) :
             a \in {specialize_arguments(rc.st, ctx, call.args)}}) :
        rc \in {specialize(st, with_symbol_target(ctx), call.callee)}})

\* add_error_trace(call) only decorates the error
specialize_Call(st, ctx, call) == specialize_call_interior(st, ctx, call)

(***************************************************************************)
(* specialize(ctx, node), prover.cpp:1382-1415.                            *)
(***************************************************************************)
specialize_node(st, ctx, node) ==
    CASE node.kind = "Template" -> specialize_Template(st, ctx, node)
      [] node.kind = "Function" -> specialize_Function(st, ctx, node)
      [] node.kind = "Symbol" -> specialize_SymbolValue(st, ctx, node)
      [] node.kind = "Block" -> specialize_Block(st, ctx, node)
      [] node.kind = "If" -> specialize_If(st, ctx, node)
      [] node.kind = "Call" -> specialize_Call(st, ctx, node)
      [] node.kind = "Let" -> specialize_Let(st, ctx, node)
      [] node.kind = "Loop" -> specialize_Loop(st, ctx, node)
      [] node.kind = "Break" -> specialize_Break(st, ctx, node)
      [] node.kind = "Repeat" -> specialize_Repeat(st, ctx, node)
      [] node.kind = "Return" -> specialize_Return(st, ctx, node)
      [] node.kind = "Raise" -> specialize_Raise(st, ctx, node)
      [] node.kind = "ArgumentList" -> specialize_ArgumentList(st, ctx, node)
      [] node.kind = "ExtractArgument" -> specialize_ExtractArgument(st, ctx, node)
      [] OTHER -> Abort(st)

SpecializeEvent(ctx, node, result) ==
    [ev |-> "specialize", frame |-> ctx.frame, target |-> ctx.target,
     node |-> node.id, kind |-> result.kind, T |-> result.type]

\* the end of specialize(ctx, node), prover.cpp:1410-1414: r is what the
\* frame had bound to the node or what the node's specializer returned
specialize_target(ctx, node, r) ==
    IF r.err # "" THEN r
    ELSE LET r2 == IF ctx.target = EvalTarget_Return /\ is_returning(r.v.type)
                   THEN make_return(r.st, ctx, r.v)
                   ELSE r
         IN  IF r2.err # "" THEN r2
             ELSE [r2 EXCEPT !.st = Log(@, SpecializeEvent(ctx, node, r2.v))]

specialize(st, ctx, node) ==
    LET st0 == Visit(st, ctx, node)
        result == Function_resolve(st0, ctx.frame, node.id)
    IN  IF result.kind = "none" /\ is_typed(node)
        THEN Ok(Log(st0, SpecializeEvent(ctx, node, node)), node)
        ELSE specialize_target(ctx, node,
                 IF result.kind # "none" THEN Ok(st0, result)
                 ELSE specialize_node(st0, ctx, node))

(***************************************************************************)
(* specialize_inline, prover.cpp:1417-1454.                                *)
(***************************************************************************)
\* the Function object of an inline expansion, prover.cpp:1423-1425
NewInlineFunction(st, func, frame) ==
    [st EXCEPT !.fns = Append(@, [Function_from(st.templates[func].value) EXCEPT
                                    !.original = func, !.frame = frame])]

specialize_inline(st, ctx, frame, func, nodes) ==
    IF Len(st.fns) >= MaxFunctions THEN Err([st EXCEPT !.overflow = TRUE], "abort")
    ELSE
    LET fn == Len(st.fns) + 1
        st0 == Log(NewInlineFunction(st, func, frame),
                   [ev |-> "inline", fn |-> fn, site |-> ctx.frame, frame |-> frame])
        subctx == ASTContext(fn, ctx.target, 0)
    IN  The({
        IF b.err # "" THEN Err(b.st, b.err)
        ELSE The({
             IF r.err # "" THEN r
             ELSE LET value ==
                        IF b.outparams # <<>>
                        THEN Block_canonicalize(
                               Block_from(<<Let_from(b.outparams, b.outargs)>>, r.v,
                                          transform_return_type(subctx, r.v.type)))
                        ELSE r.v
                  IN  Ok([r.st EXCEPT !.fns[fn].value = value], value) :
             r \in {specialize(b.st, subctx, b.st.fns[fn].value)}}) :
        b \in {specialize_bind_specialized_arguments(st0, subctx,
                   st0.templates[func].params, nodes, TRUE)}})

(***************************************************************************)
(* specialize(frame, template, types), prover.cpp:1456-1526.               *)
(***************************************************************************)
\* the variadic test off by one: a variadic parameter next to the last is
\* accepted
specialize_function_variadic_misplaced_off_by_one(params, i) ==
    /\ params[i + 1].variadic
    /\ (i + 2) < Len(params)

\* the variadic test of the function specializer, prover.cpp:1476-1480
specialize_function_variadic_misplaced(params, i) ==
    /\ params[i + 1].variadic
    /\ (i + 1) < Len(params)

\* the parameter loop, prover.cpp:1474-1510; the result is [st, err]
RECURSIVE specialize_function_params(_, _, _, _, _)
specialize_function_params(st, fn, params, types, i) ==
    IF i >= Len(params) THEN [st |-> st, err |-> ""]
    ELSE LET oldparam == params[i + 1]
         IN  IF oldparam.variadic
             THEN IF specialize_function_variadic_misplaced(params, i)
                  THEN [st |-> st, err |-> "variadic_symbol_not_in_last_place"]
                  ELSE IF (i + 1) = Len(types)
                  THEN LET newparam == SymbolValue_from(st.nsym + 1, oldparam.name,
                                                        types[i + 1])
                       IN  specialize_function_params(
                             [Function_bind(Function_append_param(st, fn, newparam),
                                            fn, oldparam.id, newparam)
                                EXCEPT !.nsym = @ + 1],
                             fn, params, types, i + 1)
                  ELSE LET vtypes == SubSeq(types, i + 1, Len(types))
                           newparams == [j \in 1..Len(vtypes) |->
                                           SymbolValue_from(st.nsym + j, oldparam.name,
                                                            vtypes[j])]
                           args == [ArgumentList_from(newparams) EXCEPT
                                      !.type = arguments_type(vtypes)]
                       IN  specialize_function_params(
                             [Function_bind(st, fn, oldparam.id, args) EXCEPT
                                !.fns[fn].params = @ \o newparams,
                                !.nsym = @ + Len(vtypes)],
                             fn, params, types, i + 1)
             ELSE LET T == IF i < Len(types) THEN types[i + 1] ELSE TYPE_Nothing
                      newparam == SymbolValue_from(st.nsym + 1, oldparam.name, T)
                  IN  IF is_typed(oldparam) /\ verify(oldparam.type, T) # ""
                      THEN [st |-> st, err |-> verify(oldparam.type, T)]
                      ELSE specialize_function_params(
                             [Function_bind(Function_append_param(st, fn, newparam),
                                            fn, oldparam.id, newparam)
                                EXCEPT !.nsym = @ + 1],
                             fn, params, types, i + 1)

\* the Functions of the cache whose key has these three components
CachedWithKey(st, frame, func, types) ==
    {f \in st.functions : /\ st.fns[f].frame = frame
                          /\ st.fns[f].original = func
                          /\ st.fns[f].instance_args = types}

\* what one call of specialize(frame, template, types) did, for the event log
CallEvent(st, frame, func, types, r) ==
    [ev |-> "call", frame |-> frame, func |-> func, types |-> types,
     cached |-> CachedWithKey(st, frame, func, types),
     err |-> r.err,
     res |-> IF r.err = "" THEN r.v.fid ELSE 0,
     complete |-> IF r.err = "" THEN r.st.fns[r.v.fid].complete ELSE FALSE,
     created |-> Len(r.st.fns) - Len(st.fns),
     unchanged |-> /\ r.st.fns = st.fns
                   /\ r.st.functions = st.functions
                   /\ r.st.log = st.log
                   /\ r.st.visited = st.visited,
     cache_after |-> r.st.functions]

\* the new Function object, prover.cpp:1468-1473
NewFunction(st, func, frame, types) ==
    [st EXCEPT !.fns = Append(@, [Function_from(st.templates[func].value) EXCEPT
                                    !.return_type = TYPE_NoReturn,
                                    !.except_type = TYPE_NoReturn,
                                    !.original = func, !.frame = frame,
                                    !.instance_args = types])]

\* the body of the new Function fn is specialized, prover.cpp:1511-1525;
\* st1 is the state with fn in the cache.  The assert of line 1522 ends the
\* process in a build without NDEBUG and is no code at all in one with it.
specialize_function_body(st1, fn) ==
    The({
        IF r.err # "" THEN r
        ELSE IF is_returning(r.v.type) /\ ~r.st.ndebug
        THEN Abort([r.st EXCEPT !.fns[fn].value = r.v])
        ELSE LET st2 == [r.st EXCEPT !.fns[fn].value = r.v,
                                     !.fns[fn].complete = TRUE]
                 st3 == [st2 EXCEPT !.fns[fn].type = get_function_type(st2, fn)]
             IN  Ok(st3, FunctionValue(st3, fn)) :
        r \in {specialize(st1, ASTContext(fn, EvalTarget_Return, 0),
                          st1.fns[fn].value)}})

\* the cache miss, prover.cpp:1467-1510
specialize_function_miss(st, frame, func, types) ==
    IF Len(st.fns) >= MaxFunctions THEN Err([st EXCEPT !.overflow = TRUE], "abort")
    ELSE
    LET st0 == NewFunction(st, func, frame, types)
        fn == Len(st0.fns)
    IN  The({
        IF p.err # "" THEN Err(p.st, p.err)
        ELSE specialize_function_body(functions_insert(p.st, fn), fn) :
        p \in {specialize_function_params(st0, fn, st0.templates[func].params,
                                          types, 0)}})

specialize_function(st, frame, func, types) ==
    LET key == [self |-> 0, frame |-> frame, original |-> func,
                instance_args |-> types]
        it == functions_find(st, key)
    IN  The({
        IF Halted(r.st) THEN r
        ELSE [r EXCEPT !.st = Log(@, CallEvent(st, frame, func, types, r))] :
        r \in {IF it # 0 THEN Ok(st, FunctionValue(st, it))
               ELSE specialize_function_miss(st, frame, func, types)}})

(***************************************************************************)
(* The untyped programs the specializer is run on.  Templates[t] is the    *)
(* Template with id t: its parameters, its body, the template it is        *)
(* defined in (scope, null for a root) and its inline flag.                *)
(***************************************************************************)
Param(id, name, variadic, T) ==
    [id |-> id, kind |-> "Symbol", type |-> T, name |-> name, uid |-> 0,
     variadic |-> variadic]

Sym(id, name) == Param(id, name, FALSE, TNull)

N_Int(id, n) == [ConstInt_from(TYPE_I32, n) EXCEPT !.id = id]

N_Bool(id, b) == [ConstInt_from(TYPE_Bool, IF b THEN 1 ELSE 0) EXCEPT !.id = id]

N_Str(id, n) == [ConstPointer_string_from(n) EXCEPT !.id = id]

N_Template(id, tid) == [id |-> id, kind |-> "Template", type |-> TNull, tid |-> tid]

N_Call(id, callee, args) ==
    [id |-> id, kind |-> "Call", type |-> TNull, callee |-> callee, args |-> args]

N_Op(id, b, x, y) == N_Call(id, ConstInt_builtin_from(b), <<x, y>>)

N_If(id, clauses, else_value) ==
    [id |-> id, kind |-> "If", type |-> TNull, clauses |-> clauses,
     else_value |-> else_value]

Clause(cond, value) == [cond |-> cond, value |-> value]

N_Block(id, body, value) ==
    [id |-> id, kind |-> "Block", type |-> TNull, body |-> body, value |-> value]

N_Let(id, params, args) ==
    [id |-> id, kind |-> "Let", type |-> TNull, params |-> params, args |-> args]

N_Return(id, value) == [id |-> id, kind |-> "Return", type |-> TNull, value |-> value]

N_Raise(id, value) == [id |-> id, kind |-> "Raise", type |-> TNull, value |-> value]

N_Loop(id, params, args, value) ==
    [id |-> id, kind |-> "Loop", type |-> TNull, params |-> params, args |-> args,
     value |-> value]

N_Break(id, value) == [id |-> id, kind |-> "Break", type |-> TNull, value |-> value]

N_Repeat(id, args) == [id |-> id, kind |-> "Repeat", type |-> TNull, args |-> args]

Template(name, scope, inline, params, value) ==
    [name |-> name, scope |-> scope, inline |-> inline, params |-> params,
     value |-> value]

T_main_fact == "main_fact"
T_fact == "fact"
T_main_sum == "main_sum"
T_sum == "sum"
T_sum_rev == "sum_rev"
T_main_const == "main_const"
T_main_if == "main_if"
T_main_nested == "main_nested"
T_main_block == "main_block"
T_main_noreturn == "main_noreturn"
T_var == "var"
T_main_inline == "main_inline"
T_inl == "inl"
T_main_inline_return == "main_inline_return"
T_inl_ret == "inl_ret"
T_main_outer == "main_outer"
T_mid == "mid"
T_inl_outer == "inl_outer"
T_main_raise == "main_raise"
T_main_raise_inline == "main_raise_inline"
T_inl_raise == "inl_raise"

\* fn main_fact (x) (fact x)
main_fact ==
    Template(T_main_fact, NullTemplate, FALSE, <<Sym(101, "x")>>,
             N_Call(102, N_Template(103, T_fact), <<Sym(101, "x")>>))

\* fn fact (n) (if (n == 0) 1 else (n * (fact (n - 1))))
fact ==
    Template(T_fact, T_main_fact, FALSE, <<Sym(201, "n")>>,
        N_If(202,
             <<Clause(N_Op(203, "OP_ICmpEQ", Sym(201, "n"), N_Int(210, 0)),
                      N_Int(204, 1))>>,
             N_Op(205, "OP_Mul", Sym(201, "n"),
                  N_Call(206, N_Template(207, T_fact),
                         <<N_Op(208, "OP_Sub", Sym(201, "n"), N_Int(209, 1))>>))))

\* fn main_sum (x) (sum x)
main_sum ==
    Template(T_main_sum, NullTemplate, FALSE, <<Sym(301, "x")>>,
             N_Call(302, N_Template(303, T_sum), <<Sym(301, "x")>>))

\* fn sum (n) (if (n == 0) n else (n + (sum n))): the base case is a bound symbol
sum ==
    Template(T_sum, T_main_sum, FALSE, <<Sym(401, "n")>>,
        N_If(402,
             <<Clause(N_Op(403, "OP_ICmpEQ", Sym(401, "n"), N_Int(410, 0)),
                      Sym(401, "n"))>>,
             N_Op(405, "OP_Add", Sym(401, "n"),
                  N_Call(406, N_Template(407, T_sum), <<Sym(401, "n")>>))))

\* fn sum_rev (n) (if (n != 0) (n + (sum_rev n)) else n): the branches of sum,
\* the recursive one first
sum_rev ==
    Template(T_sum_rev, T_main_sum, FALSE, <<Sym(451, "n")>>,
        N_If(452,
             <<Clause(N_Op(453, "OP_ICmpNE", Sym(451, "n"), N_Int(460, 0)),
                      N_Op(455, "OP_Add", Sym(451, "n"),
                           N_Call(456, N_Template(457, T_sum_rev), <<Sym(451, "n")>>)))>>,
             Sym(451, "n")))

\* fn main_const () 1
main_const == Template(T_main_const, NullTemplate, FALSE, <<>>, N_Int(501, 1))

\* fn main_if (c): constant and non-constant conditions; the symbols 690..692
\* are bound nowhere and "s" is a string where the other branches are integers
main_if ==
    Template(T_main_if, NullTemplate, FALSE, <<Sym(601, "c")>>,
        N_Block(602,
            <<N_If(610, <<Clause(N_Bool(611, TRUE), N_Int(612, 1))>>, N_Str(613, 1)),
              N_If(620, <<Clause(N_Bool(621, FALSE), Sym(690, "unbound"))>>,
                   N_Int(623, 2)),
              N_If(630, <<Clause(Sym(601, "c"), N_Int(632, 1)),
                          Clause(N_Bool(633, FALSE), Sym(691, "unbound")),
                          Clause(N_Bool(635, TRUE), N_Int(636, 2)),
                          Clause(Sym(692, "unbound"), N_Int(638, 3))>>,
                   N_Str(639, 1))>>,
            N_If(640, <<Clause(N_Bool(641, TRUE),
                               N_Op(642, "OP_Add", N_Int(643, 1), N_Int(644, 2)))>>,
                 N_Str(645, 1))))

\* fn main_nested (c) (if c (if c 1 else 2) else (if c 3 else 4)): the
\* branches of an If are Ifs with branches of their own
main_nested ==
    Template(T_main_nested, NullTemplate, FALSE, <<Sym(1301, "c")>>,
        N_If(1302,
             <<Clause(Sym(1301, "c"),
                      N_If(1310, <<Clause(Sym(1301, "c"), N_Int(1311, 1))>>,
                           N_Int(1312, 2)))>>,
             N_If(1320, <<Clause(Sym(1301, "c"), N_Int(1321, 3))>>,
                  N_Int(1322, 4))))

\* fn main_block (x): useless and useful statements, a returning tail
main_block ==
    Template(T_main_block, NullTemplate, FALSE, <<Sym(701, "x")>>,
        N_Block(702,
            <<N_Int(703, 7),
              Sym(701, "x"),
              N_Let(704, <<Sym(705, "y")>>, <<N_Int(706, 1)>>),
              N_Let(707, <<Sym(708, "z")>>,
                    <<N_Op(709, "OP_Add", Sym(701, "x"), Sym(701, "x"))>>),
              N_Op(710, "OP_Add", Sym(701, "x"), Sym(708, "z"))>>,
            Sym(708, "z")))

\* fn main_noreturn (x): a return that is not the last expression of its block
main_noreturn ==
    Template(T_main_noreturn, NullTemplate, FALSE, <<Sym(801, "x")>>,
        N_Block(802,
            <<N_Op(803, "OP_Add", Sym(801, "x"), Sym(801, "x")),
              N_Return(804, Sym(801, "x")),
              N_Int(805, 3)>>,
            Sym(801, "x")))

\* fn main_inline (x) (let z = (inl x)) (inl z): an inline expansion as the
\* argument of a Let, then one as the last expression of the function
main_inline ==
    Template(T_main_inline, NullTemplate, FALSE, <<Sym(1101, "x")>>,
        N_Block(1102,
            <<N_Let(1103, <<Sym(1104, "z")>>,
                    <<N_Call(1105, N_Template(1106, T_inl), <<Sym(1101, "x")>>)>>)>>,
            N_Call(1107, N_Template(1108, T_inl), <<Sym(1104, "z")>>)))

\* inline fn inl (y) (y + y)
inl ==
    Template(T_inl, T_main_inline, TRUE, <<Sym(1151, "y")>>,
             N_Op(1152, "OP_Add", Sym(1151, "y"), Sym(1151, "y")))

\* fn main_inline_return (x) (inl_ret x)
main_inline_return ==
    Template(T_main_inline_return, NullTemplate, FALSE, <<Sym(1201, "x")>>,
             N_Call(1202, N_Template(1203, T_inl_ret), <<Sym(1201, "x")>>))

\* inline fn inl_ret (y) (return (y + unbound)): a return in an inline
\* template, its value an expression that cannot be specialized
inl_ret ==
    Template(T_inl_ret, T_main_inline_return, TRUE, <<Sym(1251, "y")>>,
             N_Return(1252, N_Op(1253, "OP_Add", Sym(1251, "y"), Sym(1254, "unbound"))))

\* fn main_outer (x) (mid x)
main_outer ==
    Template(T_main_outer, NullTemplate, FALSE, <<Sym(1401, "x")>>,
             N_Call(1402, N_Template(1403, T_mid), <<Sym(1401, "x")>>))

\* fn mid (y) (inl_outer y), defined in main_outer
mid ==
    Template(T_mid, T_main_outer, FALSE, <<Sym(1411, "y")>>,
             N_Call(1412, N_Template(1413, T_inl_outer), <<Sym(1411, "y")>>))

\* inline fn inl_outer (z) z, defined in main_outer and expanded in mid
inl_outer ==
    Template(T_inl_outer, T_main_outer, TRUE, <<Sym(1421, "z")>>, Sym(1421, "z"))

\* fn main_raise (x) (raise x)
main_raise ==
    Template(T_main_raise, NullTemplate, FALSE, <<Sym(1501, "x")>>,
             N_Raise(1502, Sym(1501, "x")))

\* fn main_raise_inline (x) (inl_raise x)
main_raise_inline ==
    Template(T_main_raise_inline, NullTemplate, FALSE, <<Sym(1511, "x")>>,
             N_Call(1512, N_Template(1513, T_inl_raise), <<Sym(1511, "x")>>))

\* inline fn inl_raise (z) (raise z), defined in main_raise_inline
inl_raise ==
    Template(T_inl_raise, T_main_raise_inline, TRUE, <<Sym(1521, "z")>>,
             N_Raise(1522, Sym(1521, "z")))

\* the template whose parameters are an input of the binder specification
var_template(params) ==
    Template(T_var, NullTemplate, FALSE, params, N_Op(901, "OP_Add", N_Int(902, 1), N_Int(903, 1)))

Templates ==
    LET ts == <<main_fact, fact, main_sum, sum, main_const, main_if, main_block,
                main_noreturn, var_template(<<>>), main_inline, inl,
                main_inline_return, inl_ret, main_nested, sum_rev, main_outer, mid,
                inl_outer, main_raise, main_raise_inline, inl_raise>>
    IN  [t \in {ts[i].name : i \in DOMAIN ts} |->
            ts[CHOOSE i \in DOMAIN ts : ts[i].name = t]]

Roots == {t \in DOMAIN Templates : Templates[t].scope = NullTemplate /\ t # T_var}

ArgTypes == {TYPE_I32, TYPE_Bool}

SeqsUpTo(S, n) == UNION {[1..k -> S] : k \in 0..n}

(***************************************************************************)
(* The specializer driven through its entry point                          *)
(* specialize(frame, template, types).  functions, fns, nsym and jobs are  *)
(* the globals of prover.cpp; last is what the latest top level call did   *)
(* and history the outcome of every call made so far, nested ones          *)
(* included.                                                               *)
(***************************************************************************)
NoCall ==
    [frame |-> 0, func |-> 0, types |-> <<>>, err |-> "none", res |-> 0,
     log |-> <<>>, visited |-> {}]

Idle == [pc |-> "idle"]

State(templates) ==
    [functions |-> functions, fns |-> fns, templates |-> templates,
     jobs |-> jobs, job |-> <<>>, loops |-> <<>>, nsym |-> nsym,
     log |-> <<>>, visited |-> {}, aborted |-> FALSE, ndebug |-> ndebug,
     overflow |-> FALSE]

CallOutcomes(log) ==
    {[frame |-> log[i].frame, func |-> log[i].func, types |-> log[i].types,
      err |-> log[i].err, res |-> log[i].res, cached |-> log[i].cached] :
        i \in {k \in DOMAIN log : log[k].ev = "call"}}

Init ==
    /\ prog \in Roots
    /\ functions = {}
    /\ fns = <<>>
    /\ nsym = 0
    /\ jobs = <<>>
    /\ aborted = FALSE
    /\ ndebug \in BOOLEAN
    /\ last = NoCall
    /\ history = {}
    /\ ast = Idle
    /\ mrg = Idle
    /\ bnd = Idle
    /\ app = Idle

\* one call of specialize(frame, func, types) from outside the specializer
Run(templates, frame, func, types) ==
    \E r \in {specialize_function(State(templates), frame, func, types)} :
        /\ ~aborted
        /\ ~r.st.overflow
        /\ functions' = r.st.functions
        /\ fns' = r.st.fns
        /\ nsym' = r.st.nsym
        /\ jobs' = r.st.jobs
        /\ aborted' = r.st.aborted
        /\ last' = [frame |-> frame, func |-> func, types |-> types,
                    err |-> r.err, res |-> IF r.err = "" THEN r.v.fid ELSE 0,
                    log |-> r.st.log, visited |-> r.st.visited]
        /\ history' = history \cup CallOutcomes(r.st.log)

\* the root template of the program is specialized for some argument types
SpecializeRoot ==
    /\ \E types \in SeqsUpTo(ArgTypes, MaxArgs) : Run(Templates, 0, prog, types)
    /\ UNCHANGED <<ast, prog, ndebug, mrg, bnd, app>>

\* a template is specialized in a complete frame of the template it is
\* defined in
SpecializeInFrame ==
    /\ \E frame \in functions, func \in DOMAIN Templates,
          types \in SeqsUpTo(ArgTypes, MaxArgs) :
            /\ fns[frame].complete
            /\ Templates[func].scope = fns[frame].original
            /\ Run(Templates, frame, func, types)
    /\ UNCHANGED <<ast, prog, ndebug, mrg, bnd, app>>

Next == SpecializeRoot \/ SpecializeInFrame

Spec == Init /\ [][Next]_vars

(***************************************************************************)
(* merge_return_type applied to every pair and triple of types.  With a    *)
(* failed merge absorbing, MergeLeft(x, T) is x merged with T and          *)
(* MergeRight(T, y) is T merged with y, x and y being results of a merge.  *)
(***************************************************************************)
MergeTypes == {TYPE_NoReturn, TYPE_Nothing, TYPE_I32, TYPE_Bool, TYPE_String}

MergeLeft(x, T) == IF x.err # "" THEN x ELSE merge_return_type(x.T, T)

MergeRight(T, y) == IF y.err # "" THEN y ELSE merge_return_type(T, y.T)

InitMerge ==
    /\ prog = NullTemplate
    /\ functions = {}
    /\ fns = <<>>
    /\ nsym = 0
    /\ jobs = <<>>
    /\ aborted = FALSE
    /\ ndebug \in BOOLEAN
    /\ last = NoCall
    /\ history = {}
    /\ ast = Idle
    /\ bnd = Idle
    /\ app = Idle
    /\ \E A \in MergeTypes \cup {TNull}, B \in MergeTypes, C \in MergeTypes :
          mrg = [pc |-> "in", A |-> A, B |-> B, C |-> C]

MergeApply ==
    /\ mrg.pc = "in"
    /\ mrg' = [pc |-> "out", A |-> mrg.A, B |-> mrg.B, C |-> mrg.C,
               ab |-> merge_return_type(mrg.A, mrg.B),
               ba |-> merge_return_type(mrg.B, mrg.A),
               ab_c |-> MergeLeft(merge_return_type(mrg.A, mrg.B), mrg.C),
               a_bc |-> MergeRight(mrg.A, merge_return_type(mrg.B, mrg.C))]
    /\ UNCHANGED <<ast, prog, functions, fns, nsym, jobs, aborted, ndebug, last, history, bnd,
                   app>>

NextMerge == MergeApply

SpecMerge == InitMerge /\ [][NextMerge]_vars

(***************************************************************************)
(* The two parameter binders applied to every parameter list of at most    *)
(* MaxParams parameters, each variadic or not and typed i32 or untyped,    *)
(* and to at most MaxBindArgs arguments.                                   *)
(***************************************************************************)
ParamKinds == [variadic : BOOLEAN, type : {TNull, TYPE_I32}]

BindParams(kinds) ==
    [i \in 1..Len(kinds) |-> Param(910 + i, "p", kinds[i].variadic, kinds[i].type)]

BindTemplates(kinds) == [Templates EXCEPT ![T_var] = var_template(BindParams(kinds))]

\* the arguments of the Let binder: one specialized symbol for each type
BindArgs(types) == [i \in 1..Len(types) |-> SymbolValue_from(i, "a", types[i])]

InitBind ==
    /\ prog = T_var
    /\ functions = {}
    /\ fns = <<>>
    /\ nsym = 0
    /\ jobs = <<>>
    /\ aborted = FALSE
    /\ ndebug \in BOOLEAN
    /\ last = NoCall
    /\ history = {}
    /\ ast = Idle
    /\ mrg = Idle
    /\ app = Idle
    /\ \E kinds \in SeqsUpTo(ParamKinds, MaxParams),
          types \in SeqsUpTo(ArgTypes, MaxBindArgs) :
          bnd = [pc |-> "in", kinds |-> kinds, types |-> types]

\* specialize_bind_specialized_arguments in the frame of a new function
BindLet ==
    /\ bnd.pc = "in"
    /\ \E inline_constants \in BOOLEAN :
        \E b \in {specialize_bind_specialized_arguments(
                     NewInlineFunction(State(BindTemplates(bnd.kinds)), T_var, 0),
                     ASTContext(1, EvalTarget_Symbol, 0),
                     BindParams(bnd.kinds), BindArgs(bnd.types), inline_constants)} :
            /\ bnd' = [pc |-> "let", kinds |-> bnd.kinds, types |-> bnd.types,
                       err |-> b.err, outparams |-> b.outparams,
                       bound |-> Len(b.st.fns[1].map),
                       inline_constants |-> inline_constants, outargs |-> b.outargs]
            /\ fns' = b.st.fns
            /\ nsym' = b.st.nsym
    /\ UNCHANGED <<ast, prog, functions, jobs, aborted, ndebug, last, history, mrg, app>>

\* specialize(frame, template, types) of the template with these parameters
BindFunction ==
    /\ bnd.pc = "in"
    /\ Run(BindTemplates(bnd.kinds), 0, T_var, bnd.types)
    /\ bnd' = [pc |-> "fn", kinds |-> bnd.kinds, types |-> bnd.types]
    /\ UNCHANGED <<ast, prog, ndebug, mrg, app>>

NextBind == BindLet \/ BindFunction

SpecBind == InitBind /\ [][NextBind]_vars

(***************************************************************************)
(* specialize(ctx, node) applied to one node in one frame under one        *)
(* evaluation target.  The frame is a function of the template node_fn     *)
(* (c, n, p) whose parameters are bound to a Bool, an integer and a value  *)
(* of the type ptype, as when its body is specialized; or the function of  *)
(* an inline expansion of node_inline in that frame; or a function without *)
(* a template.                                                             *)
(***************************************************************************)
T_node_fn == "node_fn"
T_node_inline == "node_inline"
T_callee0 == "callee0"
T_callee1 == "callee1"
T_callee2 == "callee2"
T_calleeV == "calleeV"

node_c == Sym(951, "c")
node_n == Sym(952, "n")
node_p == Sym(953, "p")
node_unbound == Sym(954, "unbound")

NodeParams == <<node_c, node_n, node_p>>

\* the templates called: fn callee0 () 1, fn callee1 (a) a,
\* fn callee2 (a b) b and fn calleeV (a b...) a, all defined in node_fn
CalleeTemplates ==
    (T_callee0 :> Template(T_callee0, T_node_fn, FALSE, <<>>, N_Int(1100, 1)))
    @@ (T_callee1 :> Template(T_callee1, T_node_fn, FALSE, <<Sym(1101, "a")>>,
                              Sym(1101, "a")))
    @@ (T_callee2 :> Template(T_callee2, T_node_fn, FALSE,
                              <<Sym(1102, "a"), Sym(1103, "b")>>, Sym(1103, "b")))
    @@ (T_calleeV :> Template(T_calleeV, T_node_fn, FALSE,
                              <<Sym(1104, "a"), Param(1105, "b", TRUE, TNull)>>,
                              Sym(1104, "a")))

NodeTemplates ==
    (T_node_fn :> Template(T_node_fn, NullTemplate, FALSE, NodeParams, node_n))
    @@ (T_node_inline :> Template(T_node_inline, T_node_fn, TRUE, NodeParams, node_n))
    @@ CalleeTemplates

\* the types a pointer parameter is given
PointerTypes ==
    {pointer_type(TYPE_I32, flags) : flags \in SUBSET {PTF_NonWritable, PTF_NonReadable}}
    \cup {typename_type(pointer_type(TYPE_I32, {})),
          typename_type(pointer_type(TYPE_I32, {PTF_NonReadable})),
          typename_type(TNull), TYPE_I32}

NodeTypes(ptype) == <<TYPE_Bool, TYPE_I32, ptype>>

FrameKinds == {"function", "inline", "no template"}

\* function 1: a function of node_fn in the cache, its parameters bound
NodeFunctionState(ptype) ==
    LET st0 == NewFunction(State(NodeTemplates), T_node_fn, 0, NodeTypes(ptype))
        p == specialize_function_params(st0, 1, NodeParams, NodeTypes(ptype), 0)
    IN  functions_insert(p.st, 1)

\* function 2: the inline expansion of node_inline in function 1, its
\* arguments the parameters of function 1
NodeInlineState(ptype, target) ==
    LET st1 == NodeFunctionState(ptype)
        st2 == NewInlineFunction(st1, T_node_inline, 1)
    IN  specialize_bind_specialized_arguments(
            st2, ASTContext(2, target, 0), NodeParams, st1.fns[1].params, TRUE).st

\* function 1: a function without a template, the three symbols bound
NodeNoTemplateState(ptype, target) ==
    LET st0 == State(NodeTemplates)
        st1 == [st0 EXCEPT !.fns = <<Function_from(NoValue)>>, !.nsym = 3]
    IN  specialize_bind_specialized_arguments(
            st1, ASTContext(1, target, 0), NodeParams, BindArgs(NodeTypes(ptype)),
            TRUE).st

NodeState(kind, ptype, target) ==
    IF kind = "function" THEN NodeFunctionState(ptype)
    ELSE IF kind = "inline" THEN NodeInlineState(ptype, target)
    ELSE NodeNoTemplateState(ptype, target)

\* the leaves of the nodes: constants of three types and the integer symbol
NodeLeaves == {N_Int(961, 1), N_Str(962, 1), N_Bool(963, TRUE), node_n}

\* if c then x else y
IfNodes == {N_If(960, <<Clause(node_c, x)>>, y) : x \in NodeLeaves, y \in NodeLeaves}

\* return x, x a constant, a bound symbol or a symbol that is bound nowhere
ReturnNodes == {N_Return(970, x) : x \in {N_Int(961, 1), node_n, node_unbound}}

\* x + y, x and y integer constants or the integer symbol
AddOperands == {N_Int(981, 1), N_Int(982, 2), node_n}

AddNodes == {N_Op(980, "OP_Add", x, y) : x \in AddOperands, y \in AddOperands}

\* let x = 1 in x + 2
LetAddNode ==
    N_Block(985, <<N_Let(986, <<Sym(987, "x")>>, <<N_Int(981, 1)>>)>>,
            N_Op(980, "OP_Add", Sym(987, "x"), N_Int(982, 2)))

\* load p, volatile-load p, and the loads of two arguments
LoadNodes ==
    {N_Call(990, ConstInt_builtin_from(b), args) :
        b \in {"FN_Load", "FN_VolatileLoad"}, args \in {<<node_p>>, <<node_p, node_n>>}}

Nodes == IfNodes \cup ReturnNodes \cup AddNodes \cup {LetAddNode} \cup LoadNodes

N_ArgumentList(id, values) == [ArgumentList_from(values) EXCEPT !.id = id]

\* (n, 1), a value of an arguments type
PairNode == N_ArgumentList(992, <<node_n, N_Int(961, 1)>>)

\* the values of an argument list: the integer symbol, a constant, the empty
\* list, a list of two values, an If of an arguments type, and a Return
ArgumentNodes ==
    {node_n, N_Int(961, 1), N_ArgumentList(991, <<>>), PairNode,
     N_If(993, <<Clause(node_c, PairNode)>>, PairNode), N_Return(970, node_n)}

\* the argument lists of at most MaxArgNodes values
ArgumentListNodes ==
    {N_ArgumentList(990, values) : values \in SeqsUpTo(ArgumentNodes, MaxArgNodes)}

\* the arguments of a call: none, one, two, and one list of two values
CallArguments ==
    {<<>>, <<node_n>>, <<N_Bool(963, TRUE), node_n>>, <<PairNode>>,
     <<node_n, PairNode>>}

\* callee(arguments) for every callee template
CallNodes ==
    {N_Call(1110, N_Template(1111, t), args) :
        t \in DOMAIN CalleeTemplates, args \in CallArguments}

\* the symbol a loop binds
node_i == Sym(1001, "i")

\* the bodies of a loop: a Break of a constant, of the loop symbol, of a
\* string and of a symbol bound nowhere, a Repeat, an If of a Break and a
\* Repeat, and a loop of its own followed by a Break
LoopBodies ==
    {N_Break(1002, x) : x \in {N_Int(961, 1), node_i, N_Str(962, 1), node_unbound}}
    \cup {N_Repeat(1003, <<node_i>>),
          N_If(1004, <<Clause(node_c, N_Break(1002, node_i))>>,
               N_Repeat(1003, <<node_i>>)),
          N_If(1006, <<Clause(node_c, N_Break(1002, node_i))>>,
               N_Break(1007, N_Str(962, 1))),
          N_Block(1005, <<N_Loop(1010, <<>>, <<>>, N_Break(1011, N_Int(961, 1)))>>,
                  N_Break(1002, N_Str(962, 1)))}

\* loop (i = n) body, and a Break and a Repeat in no loop
LoopNodes ==
    {N_Loop(1000, <<node_i>>, <<node_n>>, body) : body \in LoopBodies}
    \cup {N_Break(1002, node_unbound), N_Repeat(1003, <<node_unbound>>)}

\* the nodes specialized, each with the types of the pointer symbol it is
\* specialized for
NodeInputs ==
    (Nodes \X PointerTypes) \cup ((ArgumentListNodes \cup LoopNodes \cup CallNodes) \X {TYPE_I32})

InitNode ==
    /\ prog = NullTemplate
    /\ functions = {}
    /\ fns = <<>>
    /\ nsym = 0
    /\ jobs = <<>>
    /\ aborted = FALSE
    /\ ndebug \in BOOLEAN
    /\ last = NoCall
    /\ history = {}
    /\ ast = Idle
    /\ mrg = Idle
    /\ bnd = Idle
    /\ \E input \in NodeInputs,
          target \in {EvalTarget_Void, EvalTarget_Symbol, EvalTarget_Return},
          kind \in FrameKinds :
          app = [pc |-> "in", node |-> input[1], target |-> target, kind |-> kind,
                 ptype |-> input[2]]

\* specialize(ctx, node) with ctx.frame the last function of the state
SpecializeNode ==
    /\ app.pc = "in"
    /\ \E st0 \in {NodeState(app.kind, app.ptype, app.target)} :
        \E r \in {specialize(st0, ASTContext(Len(st0.fns), app.target, 0), app.node)} :
            /\ app' = [pc |-> "out", node |-> app.node, target |-> app.target,
                       kind |-> app.kind, ptype |-> app.ptype,
                       frame |-> Len(st0.fns), before |-> st0.fns,
                       err |-> r.err, v |-> r.v]
            /\ functions' = r.st.functions
            /\ fns' = r.st.fns
            /\ nsym' = r.st.nsym
            /\ jobs' = r.st.jobs
            /\ aborted' = r.st.aborted
            /\ last' = [NoCall EXCEPT !.err = r.err, !.log = r.st.log,
                                      !.visited = r.st.visited]
    /\ UNCHANGED <<ast, prog, ndebug, history, mrg, bnd>>

NextNode == SpecializeNode

SpecNode == InitNode /\ [][NextNode]_vars

(***************************************************************************)
(* build_argument_list and extract_argument applied to one specialized     *)
(* value x: a constant, a symbol, a Return, a Call of some type or an      *)
(* ArgumentList of at most MaxListLen values.  The id of x stands for its  *)
(* address: the nodes the two functions make have the id 0.                *)
(***************************************************************************)
ArgElements ==
    {ConstInt_from(TYPE_I32, 1), ConstInt_from(TYPE_Bool, 1),
     SymbolValue_from(1, "a", TYPE_I32), ConstTuple_none_from}

ArgResultTypes ==
    {TYPE_I32, TYPE_Nothing, TYPE_NoReturn, empty_arguments_type,
     arguments_type(<<TYPE_I32, TYPE_Bool>>),
     arguments_type(<<TYPE_Nothing, TYPE_I32>>),
     typename_type(TYPE_I32)}

ArgValues ==
    ArgElements
    \cup {Return_from(e) : e \in ArgElements}
    \cup {Call_from(ConstInt_builtin_from("FN_Load"), <<>>, T) : T \in ArgResultTypes}
    \cup {build_argument_list(values) : values \in SeqsUpTo(ArgElements, MaxListLen)}

InitArgs ==
    /\ prog = NullTemplate
    /\ functions = {}
    /\ fns = <<>>
    /\ nsym = 0
    /\ jobs = <<>>
    /\ aborted = FALSE
    /\ ndebug = FALSE
    /\ last = NoCall
    /\ history = {}
    /\ ast = Idle
    /\ mrg = Idle
    /\ bnd = Idle
    /\ \E v \in ArgValues, index \in 0..MaxListLen :
          app = [pc |-> "in", x |-> [v EXCEPT !.id = 1], index |-> index]

ArgsApply ==
    /\ app.pc = "in"
    /\ app' = [pc |-> "out", x |-> app.x, index |-> app.index,
               built |-> build_argument_list(<<app.x>>),
               extracted |-> extract_argument(build_argument_list(<<app.x>>),
                                              app.index)]
    /\ UNCHANGED <<ast, prog, functions, fns, nsym, jobs, aborted, ndebug, last, history,
                   mrg, bnd>>

NextArgs == ArgsApply

SpecArgs == InitArgs /\ [][NextArgs]_vars

(***************************************************************************)
(* The properties.  Events(kind) are the events of that kind that the      *)
(* latest top level call logged.                                           *)
(***************************************************************************)
Events(kind) == {last.log[i] : i \in {k \in DOMAIN last.log : last.log[k].ev = kind}}

SameKey(f, g) ==
    /\ fns[f].frame = fns[g].frame
    /\ fns[f].original = fns[g].original
    /\ Len(fns[f].instance_args) = Len(fns[g].instance_args)
    /\ \A i \in 1..Len(fns[f].instance_args) :
          fns[f].instance_args[i] = fns[g].instance_args[i]

\* C1: after any sequence of specialize(frame, template, types) calls, nested
\* and failing ones included, no two distinct Functions of the cache have
\* equal (frame, original template, instance_args) keys.  The cache only
\* grows and a key never changes, so the cache between two top level calls
\* shows every pair that ever was in it.
C1_CacheKeysDistinct ==
    \A f, g \in functions : SameKey(f, g) => f = g

\* C1 is exercised: the cache holds two specializations of one template in
\* one frame, and the latest call found its key in the cache
C1_Witness ==
    /\ \E f, g \in functions :
          /\ f # g
          /\ fns[f].original = fns[g].original
          /\ fns[f].frame = fns[g].frame
    /\ \E e \in Events("call") : e.cached # {}

\* C2: a call specialize(frame, template, types) whose key is in the cache
\* returns the cached Function, complete or not, creates no Function,
\* specializes nothing and leaves the cache and every Function unchanged.
C2_CacheHitReturnsCached ==
    \A e \in Events("call") :
        e.cached # {} =>
            /\ e.err = ""
            /\ e.res \in e.cached
            /\ e.created = 0
            /\ e.unchanged

\* C2 is exercised: a recursive call found the function that was still
\* being specialized
C2_Witness ==
    \E e \in Events("call") :
        /\ e.cached # {}
        /\ ~e.complete
        /\ e.res \in e.cached

\* C3: two calls specialize(frame, template, types) with the same frame,
\* template and types have the same outcome: the same Function, or an error
\* both times.
C3_SameKeySameOutcome ==
    \A a, b \in history :
        (a.frame = b.frame /\ a.func = b.func /\ a.types = b.types) =>
            \/ a.err = "" /\ b.err = "" /\ a.res = b.res
            \/ a.err # "" /\ b.err # ""

\* C4: merge_return_type(T1, T2) is T2 when T1 is unset, T1 when T1 = T2, the
\* other type when exactly one of the two is NoReturn, and fails with
\* cannot_merge_expression_types for two different returning types; its
\* result is never a third type.
C4_MergeCases ==
    mrg.pc = "out" =>
        LET A == mrg.A
            B == mrg.B
        IN  /\ A = TNull => mrg.ab = [err |-> "", T |-> B]
            /\ (A # TNull /\ A = B) => mrg.ab = [err |-> "", T |-> A]
            /\ (A # TNull /\ A # B /\ A = TYPE_NoReturn) => mrg.ab = [err |-> "", T |-> B]
            /\ (A # TNull /\ A # B /\ B = TYPE_NoReturn) => mrg.ab = [err |-> "", T |-> A]
            /\ (A # TNull /\ A # B /\ A # TYPE_NoReturn /\ B # TYPE_NoReturn) =>
                   mrg.ab.err = "cannot_merge_expression_types"
            /\ mrg.ab.err = "" => mrg.ab.T \in {A, B}

\* C4 is exercised: NoReturn merged with a returning type
C4_Witness ==
    /\ mrg.pc = "out"
    /\ mrg.A = TYPE_NoReturn
    /\ mrg.B = TYPE_I32
    /\ mrg.ab = [err |-> "", T |-> TYPE_I32]

\* C5: for set types A, B, C and a failed merge absorbing, merge_return_type
\* is commutative and associative, and it fails only for two different
\* returning types.
C5_MergeCommutativeAssociative ==
    (mrg.pc = "out" /\ mrg.A # TNull) =>
        /\ mrg.ab = mrg.ba
        /\ mrg.ab_c = mrg.a_bc
        /\ mrg.ab.err # "" <=>
              (is_returning(mrg.A) /\ is_returning(mrg.B) /\ mrg.A # mrg.B)

\* C5 is exercised: a triple with NoReturn in the middle, whose merge fails
\* whichever way it is grouped
C5_Witness ==
    /\ mrg.pc = "out"
    /\ mrg.A = TYPE_I32
    /\ mrg.B = TYPE_NoReturn
    /\ mrg.C = TYPE_Bool
    /\ mrg.ab.err = ""
    /\ mrg.ab_c.err # ""
    /\ mrg.a_bc.err # ""

\* C6: specializing the recursive template fact, whose base case is an
\* integer constant, for an integer argument succeeds and the completed
\* function has the integer return type.
C6_RecursiveFactSucceeds ==
    \A e \in Events("call") :
        (e.func = T_fact /\ e.types = <<TYPE_I32>> /\ e.cached = {}) =>
            /\ e.err = ""
            /\ fns[e.res].complete
            /\ fns[e.res].return_type = TYPE_I32

\* C7: a successful specialize(ctx, node) under the Return target returns a
\* value of type NoReturn, and the assertion on the type of a specialized
\* function body never fails.
C7_ReturnTargetYieldsNoReturn ==
    /\ ~aborted
    /\ \A e \in Events("specialize") :
          e.target = EvalTarget_Return => e.T = TYPE_NoReturn

Useless(v) ==
    \/ v.kind \in {"ConstInt", "ConstReal", "ConstPointer", "ConstTuple",
                   "ConstArray", "ConstVector", "Extern", "Symbol", "Template",
                   "Function"}
    \/ v.kind = "Let" /\ v.params = <<>>

\* C8: when its sub-specializations succeed, specialize_Block fails with
\* noreturn_not_last_expression iff a body statement has type NoReturn, a
\* non-returning tail is accepted, and every statement kept in the emitted
\* body is returning and not useless.
C8_BlockNoReturn ==
    \A e \in Events("block") :
        ~e.subfail =>
            /\ e.err \in {"", "noreturn_not_last_expression"}
            /\ e.err = "noreturn_not_last_expression" <=>
                  (\E i \in DOMAIN e.stmt_types : e.stmt_types[i] = TYPE_NoReturn)
            /\ e.err = "" =>
                  \A i \in DOMAIN e.body :
                      /\ e.body[i].type # TYPE_NoReturn
                      /\ ~Useless(e.body[i])

\* C8 is exercised: a block with a NoReturn tail was emitted, some of its
\* statements kept and some dropped
C8_Witness ==
    \E e \in Events("block") :
        /\ ~e.subfail
        /\ e.err = ""
        /\ e.tail = TYPE_NoReturn
        /\ e.body # <<>>
        /\ Len(e.body) < Len(e.stmt_types)
        /\ \E i \in DOMAIN e.body : e.body[i].kind = "Let"

Misplaced(kinds) == \E i \in 1..(Len(kinds) - 1) : kinds[i].variadic

FirstVariadic(kinds) ==
    CHOOSE i \in DOMAIN kinds :
        kinds[i].variadic /\ \A j \in 1..(i - 1) : ~kinds[j].variadic

\* a typed parameter before the first variadic one is given another type
TypeFailsBefore(kinds, types) ==
    \E j \in 1..(FirstVariadic(kinds) - 1) :
        /\ kinds[j].type # TNull
        /\ kinds[j].type # (IF j <= Len(types) THEN types[j] ELSE TYPE_Nothing)

VariadicError == "variadic_symbol_not_in_last_place"

\* C9 as claimed: both binders fail with variadic_symbol_not_in_last_place
\* iff a variadic parameter is not the last one, and the function
\* specializer then leaves the cache unchanged.
C9_VariadicIffMisplaced ==
    /\ bnd.pc = "let" => (bnd.err = VariadicError <=> Misplaced(bnd.kinds))
    /\ bnd.pc = "fn" =>
          /\ last.err = VariadicError <=> Misplaced(bnd.kinds)
          /\ last.err = VariadicError => functions = {}

\* C9 amended: the Let/Loop/inline binder fails with
\* variadic_symbol_not_in_last_place iff a variadic parameter is not the
\* last one; the function specializer fails with it iff a variadic parameter
\* is not the last one and every typed parameter before the first variadic
\* one is given its type (else the type error of that parameter is
\* reported); with a misplaced variadic parameter the function specializer
\* fails before the cache insertion, the cache unchanged.
C9_VariadicAmended ==
    /\ bnd.pc = "let" => (bnd.err = VariadicError <=> Misplaced(bnd.kinds))
    /\ bnd.pc = "fn" =>
          /\ last.err = VariadicError <=>
                (Misplaced(bnd.kinds) /\ ~TypeFailsBefore(bnd.kinds, bnd.types))
          /\ Misplaced(bnd.kinds) => (last.err # "" /\ functions = {})

\* C9 is exercised: the function specializer was given a typed parameter
\* that matches, then a variadic parameter that is not the last
C9_Witness ==
    /\ bnd.pc = "fn"
    /\ Len(bnd.kinds) = 3
    /\ bnd.kinds[1] = [variadic |-> FALSE, type |-> TYPE_I32]
    /\ bnd.kinds[2].variadic
    /\ bnd.types # <<>>
    /\ bnd.types[1] = TYPE_I32
    /\ last.err = VariadicError
    /\ functions = {}

\* the ids of the nodes of an If that constant folding drops, conds being
\* what the conditions examined turned out to be
DroppedNodes(if, conds) ==
    LET m == Len(conds)
    IN  {if.clauses[i].value.id : i \in {k \in 1..m : conds[k] = "false"}}
        \cup (IF m > 0 /\ conds[m] = "true"
              THEN {if.clauses[i].cond.id : i \in (m + 1)..Len(if.clauses)}
                   \cup {if.clauses[i].value.id : i \in (m + 1)..Len(if.clauses)}
                   \cup {if.else_value.id}
              ELSE {})

\* the ids of the bodies that survive, in order: those of the clauses with
\* a condition that is not constant, then the else body
RECURSIVE SurvivingBodies(_, _, _)
SurvivingBodies(if, conds, i) ==
    IF i > Len(conds) THEN <<if.else_value.id>>
    ELSE IF conds[i] = "true" THEN <<if.clauses[i].value.id>>
    ELSE IF conds[i] = "false" THEN SurvivingBodies(if, conds, i + 1)
    ELSE <<if.clauses[i].value.id>> \o SurvivingBodies(if, conds, i + 1)

\* C10: specialize_If examines the clauses in order; the body of a clause
\* with a constant false condition is never specialized; at the first
\* constant true condition that body becomes the else body and the later
\* clauses and the else body are neither specialized nor joined; with a
\* constant true first clause the result is that branch's value.
C10_IfConstantFolding ==
    \A e \in Events("if") :
        /\ \A i \in 1..(Len(e.conds) - 1) : e.conds[i] # "true"
        /\ \A d \in DroppedNodes(e.node, e.conds) : <<e.frame, d>> \notin last.visited
        /\ e.branches # <<>> =>
              (/\ Len(e.conds) = Len(e.node.clauses) \/ e.conds[Len(e.conds)] = "true"
               /\ e.branches = SurvivingBodies(e.node, e.conds, 1))
        /\ (e.conds = <<"true">> /\ e.err = "") => e.v.v = e.v.branch

\* C10 is exercised: one If dropped a false clause and stopped at a true
\* one, another had a constant true first clause and a string else body
C10_Witness ==
    /\ \E e \in Events("if") :
          /\ e.conds = <<"dynamic", "false", "true">>
          /\ Len(e.node.clauses) = 4
          /\ e.err = ""
    /\ \E e \in Events("if") :
          /\ e.conds = <<"true">>
          /\ e.node.else_value.type = TYPE_String
          /\ e.err = ""
          /\ e.v.v.type = TYPE_I32

\* an If with one clause, its condition not constant, whose two branches were
\* specialized to two different returning types
TwoTypedBranches(e) ==
    /\ e.conds = <<"dynamic">>
    /\ Len(e.tys) = 2
    /\ is_returning(e.tys[1])
    /\ is_returning(e.tys[2])
    /\ e.tys[1] # e.tys[2]

\* C11: an If with a non-constant Bool condition whose two branches
\* specialize to values of two different returning types fails with
\* cannot_merge_expression_types, under the Void, the Symbol and the Return
\* target.
C11_IfMergeFails ==
    \A e \in Events("if") :
        TwoTypedBranches(e) => e.err = "cannot_merge_expression_types"

\* C11 amended: such an If fails with cannot_merge_expression_types under
\* the Symbol and the Return target; under the Void target, where the branch
\* types are joined as the empty arguments type, it succeeds and its type is
\* the empty arguments type.
C11_IfMergeAmended ==
    \A e \in Events("if") :
        TwoTypedBranches(e) =>
            IF e.target = EvalTarget_Void
            THEN /\ e.err = ""
                 /\ e.v.v.kind = "If"
                 /\ e.v.v.type = empty_arguments_type
            ELSE e.err = "cannot_merge_expression_types"

\* C11 is exercised: an If with an integer and a string branch was
\* specialized under the Void target
C11_Witness ==
    /\ app.pc = "out"
    /\ app.target = EvalTarget_Void
    /\ \E e \in Events("if") :
          /\ TwoTypedBranches(e)
          /\ e.tys = <<TYPE_I32, TYPE_String>>
          /\ e.err = ""

\* the Function f is the function of an inline expansion
IsInlineFunction(f) ==
    /\ fns[f].original # NullTemplate
    /\ Templates[fns[f].original].inline

\* every exit of the specialized value v is a Return or a Raise node
RECURSIVE ExitsThroughReturn(_)
ExitsThroughReturn(v) ==
    IF v.kind \in {"Return", "Raise"} THEN TRUE
    ELSE IF v.kind = "If"
    THEN /\ \A i \in DOMAIN v.clauses : ExitsThroughReturn(v.clauses[i].value)
         /\ ExitsThroughReturn(v.else_value)
    ELSE IF v.kind = "Block" THEN ExitsThroughReturn(v.value)
    ELSE FALSE

\* no Return is synthesized while ctx.frame is the function of an inline
\* expansion
NoReturnMadeInInline ==
    \A e \in Events("make_return") : ~IsInlineFunction(e.ctxframe)

\* every completed function that is not an inline expansion has a body of
\* type NoReturn whose exits are Return or Raise nodes
CompletedBodiesReturn ==
    \A f \in DOMAIN fns :
        (fns[f].complete /\ ~IsInlineFunction(f)) =>
            /\ fns[f].value.type = TYPE_NoReturn
            /\ ExitsThroughReturn(fns[f].value)

\* C12: no Return node is synthesized while ctx.frame is the function of an
\* inline expansion, whatever the target at the call site, and every
\* completed non-inline function has a body of type NoReturn whose exits are
\* Return or Raise nodes.
C12_InlineNeverReturns ==
    /\ NoReturnMadeInInline
    /\ CompletedBodiesReturn

\* C13: an explicit Return specialized while the template of ctx.frame is
\* inline fails with illegal_return_in_inline, before its value is
\* specialized and without a change of any return_type; with no template or
\* a template that is not inline, that error is not raised.
C13_ReturnInInline ==
    (app.pc = "out" /\ app.node.kind = "Return") =>
        IF app.kind = "inline"
        THEN /\ app.err = "illegal_return_in_inline"
             /\ <<app.frame, app.node.value.id>> \notin last.visited
             /\ DOMAIN fns = DOMAIN app.before
             /\ \A f \in DOMAIN fns : fns[f].return_type = app.before[f].return_type
        ELSE app.err # "illegal_return_in_inline"

\* C13 is exercised: a Return whose value cannot be specialized, in the
\* function of an inline expansion
C13_Witness ==
    /\ app.pc = "out"
    /\ app.kind = "inline"
    /\ app.node.kind = "Return"
    /\ app.node.value = node_unbound
    /\ app.err = "illegal_return_in_inline"

AddNodeOf(node) == IF node.kind = "Block" THEN node.value ELSE node

\* the value inside the Block and the Return the result may be wrapped in
Unwrapped(v) ==
    LET b == IF v.kind = "Block" THEN v.value ELSE v
    IN  IF b.kind = "Return" THEN b.value ELSE b

AddResult == IF app.v.kind = "Return" THEN app.v.value ELSE Unwrapped(app.v)

\* the constant an operand of the application is, 0 when it is the symbol
AddOperandValue(x) ==
    IF x.kind = "ConstInt" THEN x.ival
    ELSE IF x.id = 987 THEN 1
    ELSE 0

IsAddApplication ==
    /\ app.pc = "out"
    /\ app.node.kind \in {"Call", "Block"}
    /\ AddNodeOf(app.node).callee.kind = "ConstInt"
    /\ AddNodeOf(app.node).callee.builtin = "OP_Add"

\* C15: a call of the integer Add builtin whose two operands specialize to
\* ConstInt values of one integer type specializes to the ConstInt of their
\* sum (let x = 1 in x + 2 yields 3); a typed Call of Add is emitted only
\* when an operand is not a ConstInt.
C15_AddFoldsConstants ==
    IsAddApplication =>
        LET x == AddNodeOf(app.node).args[1]
            y == AddNodeOf(app.node).args[2]
        IN  IF AddOperandValue(x) # 0 /\ AddOperandValue(y) # 0
            THEN /\ app.err = ""
                 /\ AddResult.kind = "ConstInt"
                 /\ AddResult.type = TYPE_I32
                 /\ AddResult.ival = AddOperandValue(x) + AddOperandValue(y)
            ELSE /\ app.err = ""
                 /\ AddResult.kind = "Call"
                 /\ AddResult.type = TYPE_I32

\* C15 amended: a call of the integer Add builtin whose two operands
\* specialize to values of one integer type yields a Call of Add
\* with the specialized operands and that integer type, also when both
\* operands are ConstInt values: let x = 1 in x + 2 yields the Call of Add
\* with the constants 1 and 2.
C15_AddEmitsCall ==
    IsAddApplication =>
        /\ app.err = ""
        /\ AddResult.kind = "Call"
        /\ AddResult.callee.builtin = "OP_Add"
        /\ AddResult.type = TYPE_I32
        /\ Len(AddResult.args) = 2
        /\ \A i \in 1..2 :
              LET x == AddNodeOf(app.node).args[i]
              IN  /\ AddResult.args[i].type = TYPE_I32
                  /\ AddOperandValue(x) # 0 =>
                        /\ AddResult.args[i].kind = "ConstInt"
                        /\ AddResult.args[i].ival = AddOperandValue(x)
                  /\ AddOperandValue(x) = 0 => AddResult.args[i].kind = "Symbol"

\* C15 is exercised: let x = 1 in x + 2 was specialized to the Call of Add
\* with the constants 1 and 2
C15_Witness ==
    /\ IsAddApplication
    /\ app.node.kind = "Block"
    /\ app.err = ""
    /\ AddResult.kind = "Call"
    /\ AddResult.args[1].kind = "ConstInt"
    /\ AddResult.args[1].ival = 1
    /\ AddResult.args[2].ival = 2

\* the application is a call of the Load or VolatileLoad builtin with the
\* one argument p
IsLoadApplication ==
    /\ app.pc = "out"
    /\ app.node.kind = "Call"
    /\ app.node.callee.kind = "ConstInt"
    /\ app.node.callee.builtin \in {"FN_Load", "FN_VolatileLoad"}
    /\ Len(app.node.args) = 1

\* the storage type of p is a pointer
LoadsPointer ==
    /\ storage_type(app.ptype).err = ""
    /\ is_pointer(storage_type(app.ptype).T)

\* C16: a call of Load or VolatileLoad with exactly one argument whose
\* storage type is a pointer without the readable flag fails with the
\* "non-readable" error and emits no Call; when the pointer is readable the
\* emitted Call has the element type of the pointer.
C16_LoadNeedsReadable ==
    IsLoadApplication /\ LoadsPointer =>
        IF is_readable(storage_type(app.ptype).T)
        THEN /\ app.err = ""
             /\ Unwrapped(app.v).kind = "Call"
             /\ Unwrapped(app.v).callee = app.node.callee
             /\ Unwrapped(app.v).type = storage_type(app.ptype).T.elts[1]
        ELSE /\ app.err = NonReadable
             /\ app.v = NoValue

\* C16 is exercised: a load through a pointer that is writable and not
\* readable, reached through a typename, has failed
C16_Witness ==
    /\ IsLoadApplication
    /\ app.ptype = typename_type(pointer_type(TYPE_I32, {PTF_NonReadable}))
    /\ app.node.callee.builtin = "FN_VolatileLoad"
    /\ app.err = NonReadable

\* the closure calls that found the function incomplete in the cache, its
\* return type still NoReturn
IncompleteCalls ==
    {e \in Events("closure") : ~e.complete /\ e.return_type = TYPE_NoReturn}

\* C17: a closure call that resolves to a cached function that is incomplete
\* and whose return_type is still NoReturn is not typed from that
\* return_type: the jobs are processed first, and the call fails with
\* untyped_recursive_call if the return_type is NoReturn afterwards; no Call
\* of an incomplete function has a function type of return type NoReturn.
C17_IncompleteCallWaits ==
    \A e \in IncompleteCalls :
        /\ e.waited
        /\ e.ok => extract_function_type(e.T).return_type # TYPE_NoReturn
        /\ e.err = "" => e.v.type # TYPE_NoReturn

\* C18: once a call specialize(frame, template, types) has returned, with a
\* Function or with an error, the cache holds no incomplete function: a
\* closure call can find a function incomplete in the cache only while the
\* body of that function is being specialized.
C18_NoIncompleteFunctionLeft ==
    ~aborted => \A f \in functions : fns[f].complete

\* the places of the log where the job j was started
JobStarts(j) ==
    {i \in DOMAIN last.log : last.log[i].ev = "job_start" /\ last.log[i].job = j}

\* the places of the log where a call of process_jobs made by specialize_jobs
\* returned
JobsReturns == {k \in DOMAIN last.log : last.log[k].ev = "jobs"}

\* C19: when the call of process_jobs in specialize_jobs returns, the global
\* queue is empty and every job that specialize_jobs created is done and was
\* started exactly once, before the return and after the jobs enqueued
\* before it, also when the jobs run Ifs of their own: the assertion on the
\* done flags holds.  The branch types are joined next, from the results of
\* the jobs.
C19_JobsDoneInOrder ==
    \A k \in JobsReturns :
        LET e == last.log[k]
        IN  /\ e.queue = <<>>
            /\ \A i \in 1..e.count :
                  /\ e.done[i]
                  /\ Cardinality(JobStarts(e.base + i)) = 1
                  /\ \A s \in JobStarts(e.base + i) :
                        /\ s < k
                        /\ \A j \in 1..(e.base + i - 1) : \A t \in JobStarts(j) : t < s
            /\ k + 1 < Len(last.log)
            /\ last.log[k + 1].ev = "jobs_return"
            /\ last.log[k + 2].ev = "if"
            /\ Len(last.log[k + 2].branches) = e.count
            /\ (\A i \in 1..e.count : e.errs[i] = "") => last.log[k + 2].tys = e.tys

\* C19 is exercised: the two jobs of an If have each run an If, all six jobs
\* are done, and the jobs of the inner Ifs were started after both outer jobs
C19_Witness ==
    /\ ~aborted
    /\ \E k, m \in JobsReturns :
          /\ last.log[k].base = 0
          /\ last.log[k].count = 2
          /\ last.log[m].base > 0
          /\ m < k
          /\ \A s \in JobStarts(2) : \A t \in JobStarts(last.log[m].base + 1) : s < t
          /\ \A i \in 1..2 : last.log[k].done[i] /\ last.log[m].done[i]

\* the calls that specialized the body of template func: the function was
\* not in the cache
BodyCalls(func) == {a \in history : a.func = func /\ a.cached = {}}

\* C20: the outcome of an If does not depend on the order its branch jobs
\* are executed in.  sum and sum_rev have the same two branches, n and
\* n + (f n), and their Ifs enqueue them in opposite orders: specialized in
\* one frame for the same argument types both succeed, with functions of
\* the same return and except types, or both fail.
C20_BranchOrderUnobservable ==
    \A a \in BodyCalls(T_sum), b \in BodyCalls(T_sum_rev) :
        (a.frame = b.frame /\ a.types = b.types) =>
            /\ a.err = "" <=> b.err = ""
            /\ (a.err = "" /\ b.err = "") =>
                  /\ fns[a.res].return_type = fns[b.res].return_type
                  /\ fns[a.res].except_type = fns[b.res].except_type

\* the places of the log where specialize_jobs returned
JobsReturned == {k \in DOMAIN last.log : last.log[k].ev = "jobs_return"}

\* C21: when specialize_jobs returns, every job it created has run to
\* completion, also the jobs after one that failed, and the coroutine and
\* the stack of every job are released.  If a job failed, specialize_jobs
\* returns its error and no value, and the If fails with that error;
\* otherwise it returns one value for each job.
C21_JobsFinishAndRelease ==
    \A k \in JobsReturned :
        LET e == last.log[k]
            failed == {i \in 1..e.count : e.errs[i] # ""}
        IN  /\ \A i \in 1..e.count :
                  /\ e.done[i]
                  /\ ~e.stacks[i]
                  /\ \E s \in JobStarts(e.base + i) : s < k
            /\ failed # {} =>
                  /\ e.err # ""
                  /\ \E i \in failed : e.err = e.errs[i]
                  /\ e.vs = <<>>
                  /\ k < Len(last.log)
                  /\ last.log[k + 1].ev = "if"
                  /\ last.log[k + 1].err = e.err
                  /\ last.log[k + 1].v = NoValue
            /\ failed = {} =>
                  /\ e.err = ""
                  /\ Len(e.vs) = e.count

\* C21 is exercised: the first job of an If has failed, the second job was
\* started after it and succeeded, and specialize_jobs has returned the
\* error with all stacks released
C21_Witness ==
    \E k \in JobsReturned :
        LET e == last.log[k]
        IN  /\ e.count = 2
            /\ e.errs[1] # ""
            /\ e.errs[2] = ""
            /\ e.done[2]
            /\ e.err = e.errs[1]
            /\ ~e.stacks[1]
            /\ ~e.stacks[2]
            /\ \A s \in JobStarts(e.base + 1) : \A t \in JobStarts(e.base + 2) : s < t

\* the function the expansion f was made in: ctx.frame of the call that
\* expanded the inline template
ExpansionSite(f) ==
    LET sites == {e.site : e \in {x \in Events("inline") : x.fn = f}}
    IN  IF sites = {} THEN 0 ELSE CHOOSE s \in sites : TRUE

\* the non-inline function that is being specialized and contains the call
\* site, through the chain of the inline expansions
RECURSIVE CallerOf(_)
CallerOf(f) == IF ExpansionSite(f) = 0 THEN f ELSE CallerOf(ExpansionSite(f))

\* C22: a Return made for a value produced inside an inline expansion joins
\* the type of the value into the return_type of the non-inline function
\* that contains the call site, also when the inline template is defined in
\* another frame than the caller, and into the return_type of no other
\* function.
C22_InlineReturnJoinsCaller ==
    \A e \in Events("make_return") : e.frame = CallerOf(e.ctxframe)

\* element j, counted from 0, of a value of an arguments type
ArgumentElement(v, j) ==
    IF v.kind = "ArgumentList" THEN v.values[j + 1]
    ELSE [id |-> 0, kind |-> "ExtractArgument", type |-> v.type.elts[j + 1],
          value |-> v, index |-> j]

\* the entry of a value that is not the last: element 0 of a value of an
\* arguments type, the none constant when it has no element
ArgumentEntry(v) ==
    IF ~is_arguments_type(v.type) THEN v
    ELSE IF v.type.elts = <<>> THEN ConstTuple_none_from
    ELSE ArgumentElement(v, 0)

\* the entries of the last value: all elements of a value of an arguments
\* type
LastArgumentEntries(v) ==
    IF ~is_arguments_type(v.type) THEN <<v>>
    ELSE [j \in 1..Len(v.type.elts) |-> ArgumentElement(v, j - 1)]

\* the applications of specialize_arguments all of whose input values were
\* specialized to returning values
ReturningArguments ==
    {e \in Events("arguments") :
        /\ Len(e.ins) = e.count
        /\ \A i \in 1..e.count : is_returning(e.ins[i].type)}

\* C23: when the values v1..vn all specialize to returning values,
\* specialize_arguments succeeds and appends, in order, one entry for each
\* value but the last (element 0 of a value of an arguments type, the value
\* itself otherwise), then all k elements of the last value when its type is
\* an arguments type of k elements and the last value itself otherwise: the
\* output has n - 1 + k or n values.
C23_ArgumentsFlattened ==
    \A e \in ReturningArguments :
        LET n == e.count
        IN  /\ e.err = ""
            /\ n = 0 => e.out = <<>>
            /\ n > 0 =>
                  /\ e.out = [i \in 1..(n - 1) |-> ArgumentEntry(e.ins[i])]
                                \o LastArgumentEntries(e.ins[n])
                  /\ Len(e.out) = IF is_arguments_type(e.ins[n].type)
                                  THEN n - 1 + Len(e.ins[n].type.elts)
                                  ELSE n

\* C23 is exercised: an If of an arguments type of two elements followed by
\* a list of two values gave its element 0, then the two values of the list
C23_Witness ==
    \E e \in ReturningArguments :
        /\ e.count = 2
        /\ e.ins[1].kind = "If"
        /\ e.ins[2].kind = "ArgumentList"
        /\ Len(e.out) = 3
        /\ e.out[1].kind = "ExtractArgument"
        /\ e.out[1].index = 0
        /\ e.out[3].kind = "ConstInt"

\* the applications of specialize_arguments in which no input value failed
\* to specialize
SpecializedArguments == {e \in Events("arguments") : ~e.subfail}

\* C24: specialize_arguments fails with noreturn_not_last_expression exactly
\* when a value that is not the last specializes to a value that is not
\* returning; such a value in the last position does not raise the error.
C24_NoReturnNotLast ==
    \A e \in SpecializedArguments :
        e.err = "noreturn_not_last_expression" <=>
            \E i \in 1..Len(e.ins) : i < e.count /\ ~is_returning(e.ins[i].type)

\* C24 amended: specialize_arguments fails with noreturn_not_last_expression
\* exactly when a value in any position, the last included, specializes to a
\* value that is not returning; the values after it are not specialized.
C24_NoReturnAnywhere ==
    \A e \in SpecializedArguments :
        /\ e.err \in {"", "noreturn_not_last_expression"}
        /\ e.err = "noreturn_not_last_expression" <=>
              \E i \in 1..Len(e.ins) : ~is_returning(e.ins[i].type)
        /\ e.err = "noreturn_not_last_expression" =>
              /\ ~is_returning(e.ins[Len(e.ins)].type)
              /\ \A i \in 1..(Len(e.ins) - 1) : is_returning(e.ins[i].type)
        /\ e.err = "" => Len(e.ins) = e.count

\* C24 is exercised: the last of two values was specialized to a Return and
\* specialize_arguments has failed
C24_Witness ==
    \E e \in SpecializedArguments :
        /\ e.count = 2
        /\ Len(e.ins) = 2
        /\ is_returning(e.ins[1].type)
        /\ e.ins[2].kind = "Return"
        /\ e.err = "noreturn_not_last_expression"

\* the value the binder is to give parameter i, counted from 0, of n
\* parameters for the arguments a
BinderValue(kinds, a, i) ==
    LET m == Len(a)
    IN  IF ~kinds[i + 1].variadic
        THEN IF i < m THEN a[i + 1] ELSE ConstTuple_none_from
        ELSE IF m = i + 1 THEN a[i + 1]
        ELSE [id |-> 0, kind |-> "ArgumentList",
              type |-> arguments_type([j \in 1..(IF m > i THEN m - i ELSE 0) |->
                                         a[i + j].type]),
              values |-> [j \in 1..(IF m > i THEN m - i ELSE 0) |-> a[i + j]]]

\* what parameter i, counted from 0, is bound to in the frame of the binder
BinderBinding(i) ==
    LET map == fns[1].map
        hits == {k \in DOMAIN map : map[k].key = 910 + i + 1}
    IN  IF hits = {} THEN NoValue ELSE map[MaxOf(hits)].val

\* parameter i is bound to the value v: to v itself, or to a new symbol of
\* the type of v that is emitted with v as its argument
BoundTo(i, v) ==
    \/ BinderBinding(i) = v
    \/ \E k \in DOMAIN bnd.outparams :
          /\ BinderBinding(i) = bnd.outparams[k]
          /\ bnd.outparams[k].kind = "Symbol"
          /\ bnd.outparams[k].type = v.type
          /\ k \in DOMAIN bnd.outargs
          /\ bnd.outargs[k] = v

\* C25: the Let/Loop/inline binder binds a non-variadic parameter p_i to the
\* argument a_i when i < m and to the none constant otherwise; arguments
\* beyond a non-variadic last parameter are bound to nothing and are not
\* emitted; a variadic last parameter p_i is bound to a_i itself when
\* m = i + 1 and otherwise to a new argument list of a_i..a_(m-1), empty
\* when m <= i.  The emitted parameters and arguments are equally many.
C25_BinderBindsByPosition ==
    bnd.pc = "let" =>
        LET n == Len(bnd.kinds)
            a == BindArgs(bnd.types)
            m == Len(a)
        IN  /\ Len(bnd.outparams) = Len(bnd.outargs)
            /\ bnd.err = "" =>
                  /\ \A i \in 0..(n - 1) : BoundTo(i, BinderValue(bnd.kinds, a, i))
                  /\ bnd.bound = n
                  /\ (n = 0 \/ ~bnd.kinds[n].variadic) =>
                        \A j \in (n + 1)..m :
                            /\ \A k \in DOMAIN bnd.outargs : bnd.outargs[k] # a[j]
                            /\ \A k \in DOMAIN fns[1].map : fns[1].map[k].val # a[j]

\* C25 is exercised: two arguments were bound, in a new argument list, to a
\* single variadic parameter
C25_Witness ==
    /\ bnd.pc = "let"
    /\ bnd.err = ""
    /\ Len(bnd.kinds) = 1
    /\ bnd.kinds[1].variadic
    /\ Len(bnd.types) = 2
    /\ bnd.inline_constants
    /\ Len(bnd.outargs) = 1
    /\ bnd.outargs[1].kind = "ArgumentList"
    /\ Len(bnd.outargs[1].values) = 2

\* the join of the type T into the accumulated type R of a loop: none when
\* both are returning types that differ
LoopJoin(R, T) ==
    IF R = TNull \/ R = T \/ R = TYPE_NoReturn THEN [err |-> "", T |-> T]
    ELSE IF T = TYPE_NoReturn THEN [err |-> "", T |-> R]
    ELSE [err |-> "cannot_merge_expression_types", T |-> TNull]

\* C26: a Break or a Repeat specialized with no enclosing loop fails with
\* illegal_break_outside_loop, respectively illegal_repeat_outside_loop,
\* before an operand is specialized and without a change of an accumulated
\* type; in a loop the emitted Break or Repeat has type NoReturn, and Break
\* joins the type of the specialized value into the return_type of that loop
\* and of no other loop.
C26_BreakRepeatNeedLoop ==
    /\ (app.pc = "out" /\ app.node.kind \in {"Break", "Repeat"}) =>
          /\ app.err = IF app.node.kind = "Break" THEN "illegal_break_outside_loop"
                       ELSE "illegal_repeat_outside_loop"
          /\ <<app.frame, node_unbound.id>> \notin last.visited
          /\ Events("break") = {}
          /\ Events("specialize") = {}
          /\ \A f \in DOMAIN app.before :
                /\ fns[f].return_type = app.before[f].return_type
                /\ fns[f].except_type = app.before[f].except_type
    /\ \A e \in Events("break") :
          /\ e.loop \in DOMAIN e.before
          /\ DOMAIN e.after = DOMAIN e.before
          /\ \A l \in DOMAIN e.before : l # e.loop => e.after[l] = e.before[l]
          /\ e.err = LoopJoin(e.before[e.loop], e.T).err
          /\ e.err = "" =>
                /\ e.after[e.loop] = LoopJoin(e.before[e.loop], e.T).T
                /\ e.v.kind = "Break"
                /\ e.v.type = TYPE_NoReturn
          /\ e.err # "" => e.after = e.before
    /\ \A e \in Events("specialize") :
          e.kind \in {"Break", "Repeat"} => e.T = TYPE_NoReturn

\* C26 is exercised: the Break of the inner of two loops has set the
\* return_type of the inner loop and left that of the outer loop unset, and
\* the Break of the outer loop has then set it to another type
C26_Witness ==
    \E d, e \in Events("break") :
        /\ d.loop = 2
        /\ d.before = <<TNull, TNull>>
        /\ d.after = <<TNull, TYPE_I32>>
        /\ e.loop = 1
        /\ e.before = d.after
        /\ e.after[1] = e.T
        /\ e.T # TYPE_I32

\* C27: every Block, If and Loop emitted for the Void target has the
\* empty-arguments type or NoReturn, a Loop that is left by a Break with a
\* value of a returning type included.
C27_VoidTargetTypes ==
    \A e \in Events("specialize") :
        (e.target = EvalTarget_Void /\ e.kind \in {"Block", "If", "Loop"}) =>
            e.T \in {empty_arguments_type, TYPE_NoReturn}

\* the number of arguments of the closure call e: the Function the call was
\* given is the one cached for the types of its arguments
ClosureArguments(e) == Len(fns[e.f].instance_args)

\* the parameters of the template of the closure call e
ClosureTemplateParams(e) == NodeTemplates[fns[e.f].original].params

\* C28: the call of a closure of a template that is not inline succeeds only
\* when the number of flattened arguments is the number of parameters of
\* the specialized Function.  When the last parameter of the template is
\* not variadic and the call passes fewer or more arguments than the
\* template has parameters, the Function is specialized all the same, with
\* the missing parameters of type Nothing and no parameter for a surplus
\* argument, and stays in the cache, and the call fails with
\* argument_count_mismatch.
C28_ClosureArgumentCount ==
    \A e \in Events("closure") :
        LET n == ClosureArguments(e)
            ps == ClosureTemplateParams(e)
            fn == fns[e.f]
        IN  /\ e.err = "" =>
                /\ n = Len(fn.params)
                /\ Len(e.v.args) = n
            /\ (n # Len(ps) /\ (ps = <<>> \/ ~ps[Len(ps)].variadic)) =>
                /\ e.err = "argument_count_mismatch"
                /\ e.f \in functions
                /\ fn.complete
                /\ Len(fn.params) = Len(ps)
                /\ \A i \in 1..Len(ps) :
                      fn.params[i].type = IF i <= n THEN fn.instance_args[i]
                                          ELSE TYPE_Nothing

\* C28 is exercised: a template of two parameters, the last not variadic,
\* was called with one argument; its Function is complete in the cache, the
\* second parameter of type Nothing, and the call has failed
C28_Witness ==
    \E e \in Events("closure") :
          /\ Len(ClosureTemplateParams(e)) = 2
          /\ ~ClosureTemplateParams(e)[2].variadic
          /\ ClosureArguments(e) = 1
          /\ fns[e.f].params[2].type = TYPE_Nothing
          /\ fns[e.f].complete
          /\ e.f \in functions
          /\ e.err = "argument_count_mismatch"

\* C29: a completed function that is not inline and whose specialized body
\* contains a Raise of a value of a returning type, written in the body or
\* reached through the expansion of an inline callee, has an except_type
\* that is not NoReturn, and its function pointer type records it.
C29_RaiseSetsExceptType ==
    \A e \in Events("raise") :
        LET f == CallerOf(e.ctxframe)
        IN  (is_returning(e.T) /\ fns[f].complete) =>
                /\ fns[f].except_type # TYPE_NoReturn
                /\ extract_function_type(fns[f].type).except_type # TYPE_NoReturn

(***************************************************************************)
(* The AST printer, stream_ast.cpp.  A graph g maps the address of an AST  *)
(* node to the node; the address 0 is the null pointer.  The stream ss is  *)
(* the sequence of the lines written, a line being the address of the node *)
(* it is written for (0 for a line of no node), its depth and its words.   *)
(***************************************************************************)
ASTFunction(name, inline, params, body) ==
    [kind |-> "ASTK_Function", name |-> name, inline |-> inline, params |-> params,
     body |-> body]

ASTBlock(body) == [kind |-> "ASTK_Block", body |-> body]

ASTIf(clauses) == [kind |-> "ASTK_If", clauses |-> clauses]

ASTSymbol(name) == [kind |-> "ASTK_Symbol", name |-> name]

ASTConst(value) == [kind |-> "ASTK_Const", value |-> value]

\* Call, Break, Repeat and Return: a callee (0 for the last three) and the
\* arguments, each a key ("" for SYM_Unnamed) and an expression
ASTCallLike(kind, callee, args) == [kind |-> kind, callee |-> callee, args |-> args]

\* Let and Loop: the bindings, each a symbol and an expression, and the body
ASTBinder(kind, bindings, body) == [kind |-> kind, bindings |-> bindings, body |-> body]

ASTSyntaxExtend(func) == [kind |-> "ASTK_SyntaxExtend", func |-> func]

\* one thing walk does after the line of the node: the walk of the node
\* child at depth + d, or, for child = 0, a line of the words text at depth + d
WalkItem(child, d, text) == [node |-> child, d |-> d, text |-> text]

RECURSIVE Flatten(_)
Flatten(ss) == IF ss = <<>> THEN <<>> ELSE Head(ss) \o Flatten(Tail(ss))

\* write_arguments, stream_ast.cpp:58-71
write_arguments(val) ==
    Flatten([i \in 1..Len(val.args) |->
        IF val.args[i].key = ""
        THEN <<WalkItem(val.args[i].expr, 1, <<>>)>>
        ELSE <<WalkItem(0, 1, <<val.args[i].key, "=">>),
               WalkItem(val.args[i].expr, 2, <<>>)>>])

\* a Function whose parameters and body are walked however often it is met
walk_Function_always(val, is_new) ==
    [i \in 1..Len(val.params) |-> WalkItem(val.params[i], 1, <<>>)]
    \o (IF val.body # 0 THEN <<WalkItem(val.body, 1, <<>>)>> ELSE <<>>)

\* the Function case of walk after the name, stream_ast.cpp:97-108
walk_Function(val, is_new) ==
    IF is_new
    THEN [i \in 1..Len(val.params) |-> WalkItem(val.params[i], 1, <<>>)]
         \o (IF val.body # 0 THEN <<WalkItem(val.body, 1, <<>>)>> ELSE <<>>)
    ELSE <<>>

\* the words walk writes on the line of the node, stream_ast.cpp:85-96,
\* 111, 119, 134-144, 147-153, 159, 177, 190-203
walk_line(val, is_new) ==
    CASE val.kind = "ASTK_Function" ->
            <<"Function">> \o (IF val.inline THEN <<"inline">> ELSE <<>>)
            \o (IF val.body = 0 THEN <<"forward-decl">> ELSE <<>>)
            \o <<val.name>> \o (IF is_new THEN <<>> ELSE <<"<...>">>)
      [] val.kind = "ASTK_Block" -> <<"Block">>
      [] val.kind = "ASTK_If" -> <<"If">>
      [] val.kind = "ASTK_Symbol" -> <<val.name>>
      [] val.kind = "ASTK_Call" -> <<"Call">>
      [] val.kind = "ASTK_Let" -> <<"Let">>
      [] val.kind = "ASTK_Loop" -> <<"Loop">>
      [] val.kind = "ASTK_Const" -> <<"Const", val.value>>
      [] val.kind = "ASTK_Break" -> <<"Break">>
      [] val.kind = "ASTK_Repeat" -> <<"Repeat">>
      [] val.kind = "ASTK_Return" -> <<"Return">>
      [] val.kind = "ASTK_SyntaxExtend" -> <<"SyntaxExtend">>
      [] OTHER -> <<"<unknown AST node type>">>

\* what walk does after the line of the node, in the order of the code,
\* stream_ast.cpp:83-209
walk_items(val, is_new) ==
    CASE val.kind = "ASTK_Function" -> walk_Function(val, is_new)
      [] val.kind = "ASTK_Block" ->
            [i \in 1..Len(val.body) |-> WalkItem(val.body[i], 1, <<>>)]
      [] val.kind = "ASTK_If" ->
            Flatten([i \in 1..Len(val.clauses) |->
                <<IF val.clauses[i].cond # 0
                  THEN WalkItem(val.clauses[i].cond, 1, <<>>)
                  ELSE WalkItem(0, 1, <<"Else">>),
                  WalkItem(val.clauses[i].body, 1, <<>>)>>])
      [] val.kind = "ASTK_Call" ->
            <<WalkItem(val.callee, 1, <<>>)>> \o write_arguments(val)
      [] val.kind \in {"ASTK_Let", "ASTK_Loop"} ->
            Flatten([i \in 1..Len(val.bindings) |->
                <<WalkItem(val.bindings[i].sym, 1, <<>>),
                  WalkItem(val.bindings[i].expr, 2, <<>>)>>])
            \o <<WalkItem(val.body, 1, <<>>)>>
      [] val.kind \in {"ASTK_Break", "ASTK_Repeat", "ASTK_Return"} ->
            write_arguments(val)
      [] val.kind = "ASTK_SyntaxExtend" -> <<WalkItem(val.func, 1, <<>>)>>
      [] OTHER -> <<>>

\* walk, stream_ast.cpp:73-210, on the StreamAST object st; a walk that goes
\* deeper than WalkLimit is given up and st.diverged set
RECURSIVE walk(_, _, _, _)
RECURSIVE walk_each(_, _, _, _)
walk(st, g, node, depth) ==
    IF st.diverged THEN st
    ELSE IF depth > WalkLimit THEN [st EXCEPT !.diverged = TRUE]
    ELSE LET is_new == node \notin st.visited
         IN  walk_each([st EXCEPT !.visited = @ \cup {node},
                                  !.ss = Append(@, [node |-> node, depth |-> depth,
                                                    text |-> walk_line(g[node], is_new)])],
                       g, walk_items(g[node], is_new), depth)

walk_each(st, g, items, depth) ==
    IF items = <<>> THEN st
    ELSE walk_each(IF Head(items).node = 0
                   THEN [st EXCEPT !.ss = Append(@, [node |-> 0,
                                                     depth |-> depth + Head(items).d,
                                                     text |-> Head(items).text])]
                   ELSE walk(st, g, Head(items).node, depth + Head(items).d),
                   g, Tail(items), depth)

\* the StreamAST object as constructed, stream_ast.cpp:35-41, its format the
\* default one of depth 0, stream_ast.cpp:22-25
StreamAST == [visited |-> {}, ss |-> <<>>, diverged |-> FALSE]

\* stream, stream_ast.cpp:225-229; ss is what this call writes
stream(st, g, node) == walk([st EXCEPT !.visited = {}, !.ss = <<>>], g, node, 0)

\* the nodes walk goes to from the node val
ASTChildren(val) ==
    {walk_items(val, TRUE)[i].node : i \in DOMAIN walk_items(val, TRUE)} \ {0}

\* the nodes that are no Function and are reached from the nodes S in at
\* most k steps through nodes that are no Function
RECURSIVE NonFunctionReach(_, _, _)
NonFunctionReach(g, S, k) ==
    IF k = 0 \/ S = {} THEN {}
    ELSE LET T == {m \in UNION {ASTChildren(g[n]) : n \in S} :
                      g[m].kind # "ASTK_Function"}
         IN  T \cup NonFunctionReach(g, T, k - 1)

\* every cycle of the graph passes through a Function node
CyclesPassFunctions(g) ==
    \A n \in DOMAIN g :
        g[n].kind # "ASTK_Function" => n \notin NonFunctionReach(g, {n}, Len(g))

\* the nodes at the address 3 of a graph
ThirdNodes ==
    {ASTFunction("g", TRUE, <<>>, body) : body \in 0..3}
    \cup {ASTCallLike("ASTK_Call", callee, args) :
            callee \in {1, 2, 4}, args \in {<<>>, <<[key |-> "", expr |-> 1]>>,
                                           <<[key |-> "k", expr |-> 5]>>}}
    \cup {ASTCallLike("ASTK_Return", 0, <<[key |-> "", expr |-> 1]>>),
          ASTCallLike("ASTK_Break", 0, <<[key |-> "", expr |-> 2]>>),
          ASTCallLike("ASTK_Repeat", 0, <<>>),
          ASTSyntaxExtend(1),
          ASTIf(<<[cond |-> 4, body |-> 1], [cond |-> 0, body |-> 5]>>),
          ASTBinder("ASTK_Let", <<[sym |-> 4, expr |-> 1]>>, 4),
          ASTBinder("ASTK_Loop", <<[sym |-> 4, expr |-> 5]>>, 1)}

\* the graphs printed: the Function f of the parameter x at 1, its body
\* none, the Block at 2 or the node at 3; a Block of at most two of the
\* other nodes at 2; the symbol x at 4 and a constant at 5
Graphs ==
    {g \in {<<ASTFunction("f", FALSE, <<4>>, body), ASTBlock(block), third,
              ASTSymbol("x"), ASTConst(1)>> :
               body \in {0, 2, 3}, block \in SeqsUpTo({1, 3, 4}, 2),
               third \in ThirdNodes} :
        CyclesPassFunctions(g)}

InitStream ==
    /\ prog = NullTemplate
    /\ functions = {}
    /\ fns = <<>>
    /\ nsym = 0
    /\ jobs = <<>>
    /\ aborted = FALSE
    /\ ndebug = FALSE
    /\ last = NoCall
    /\ history = {}
    /\ mrg = Idle
    /\ bnd = Idle
    /\ app = Idle
    /\ \E g \in Graphs : ast = [pc |-> "new", g |-> g, st |-> StreamAST, node |-> 0,
                                calls |-> 0]

\* stream(node) on the StreamAST object, for a node of the graph
Stream ==
    /\ ast.pc \in {"new", "out"}
    /\ ast.calls < MaxStreams
    /\ \E node \in DOMAIN ast.g :
        \E r \in {stream(ast.st, ast.g, node)} :
            ast' = [ast EXCEPT !.pc = "out", !.st = r, !.node = node, !.calls = @ + 1]
    /\ UNCHANGED <<prog, functions, fns, nsym, jobs, aborted, ndebug, last, history,
                   mrg, bnd, app>>

NextStream == Stream

SpecStream == InitStream /\ [][NextStream]_vars

\* the lines of the node n in what the last stream() call wrote
LinesOf(n) == {k \in DOMAIN ast.st.ss : ast.st.ss[k].node = n}

\* the line k is followed by the walk of the first parameter of the Function
\* val or, without parameters, of its body
DescendsAt(k, val) ==
    /\ k < Len(ast.st.ss)
    /\ ast.st.ss[k + 1].depth = ast.st.ss[k].depth + 1
    /\ ast.st.ss[k + 1].node = IF val.params # <<>> THEN val.params[1] ELSE val.body

\* C30: in one stream_ast call the visited set starts empty and the
\* parameters and the body of a Function node are walked at most once: the
\* first line of the Function is followed by them, every later line of it is
\* the same header followed by " <...>" and by no walk of them.  The walk
\* ends on every graph whose cycles all pass through a Function node.
C30_FunctionsWalkedOnce ==
    ast.pc = "out" =>
        /\ ~ast.st.diverged
        /\ ast.st.visited = {ast.st.ss[k].node : k \in DOMAIN ast.st.ss} \ {0}
        /\ ast.st.ss[1].node = ast.node
        /\ \A n \in DOMAIN ast.g :
              (ast.g[n].kind = "ASTK_Function" /\ LinesOf(n) # {}) =>
                  LET val == ast.g[n]
                      first == CHOOSE k \in LinesOf(n) : \A j \in LinesOf(n) : k <= j
                  IN  /\ ast.st.ss[first].text = walk_line(val, TRUE)
                      /\ (val.params # <<>> \/ val.body # 0) => DescendsAt(first, val)
                      /\ \A k \in LinesOf(n) \ {first} :
                            /\ ast.st.ss[k].text = walk_line(val, TRUE) \o <<"<...>">>
                            /\ ~DescendsAt(k, val)

\* C30 is exercised: the second stream() call on one StreamAST object has
\* printed a graph with a cycle, and a Function with a body three times or
\* more, its body walked after the first line only
C30_Witness ==
    /\ ast.pc = "out"
    /\ ast.calls = 2
    /\ \E n \in DOMAIN ast.g :
          /\ ast.g[n].kind = "ASTK_Function"
          /\ ast.g[n].body # 0
          /\ n \in NonFunctionReach(ast.g, ASTChildren(ast.g[n]), Len(ast.g))
                   \cup ASTChildren(ast.g[n])
          /\ Cardinality(LinesOf(n)) >= 3

====
